---- MODULE Spec2Model ----
(***************************************************************************)
(* A model of the led-star animation core (lib/src) and its frame loop.    *)
(*                                                                         *)
(*   StarSpec  the wiring-order traversal, star.rs (Star::iter, StarIter)  *)
(*   SlotSpec  the fixed-capacity slot allocator, slotmap.rs (SlotMap)     *)
(*   StreakSpec  the streak spawner over its eight slots, streak.rs        *)
(*   LifeSpec  one streak under constant oscillators, streak.rs            *)
(*   ArcSpec   the circulating arc streak, streak.rs (ArcStreak)           *)
(*   OscSpec   the oscillator combinators, osc.rs (mod math, Neg)          *)
(*   WaveSpec  Triangle, Square, WithFrequency, RandomPulse, osc.rs        *)
(*   RandSpec  the generator's range_u8, rand.rs                           *)
(*   QuerySpec an ArcStreak whose length oscillator is Rng, streak.rs      *)
(*   MainSpec  the frame loop, arduino/src/main.rs                         *)
(*                                                                         *)
(* Every component has its own specification; the variables of the other   *)
(* components are parked at their constructed values and never change.     *)
(***************************************************************************)
EXTENDS Integers, Sequences, FiniteSets, TLC

VARIABLES
    \* ---- star.rs: Star / StarIter
    layout,            \* the Layout the Star was built with
    current_spine,     \* StarIter.current_spine   (u8)
    current_position,  \* StarIter.current_position (Position)
    position_offset,   \* StarIter.position_offset (u8)
    queries,           \* the pattern queries made so far, in order
    colors,            \* the colors next() has returned so far, in order
    lastRet,           \* "fresh" | "some" | "none": what the last next() returned
    fault,             \* "none" | "panic" (a debug build's debug_assert! failed)
                       \*        | "abort" (undefined behaviour trapped)
    ub,                \* TRUE once a release build has executed unreachable_unchecked()
    \* ---- slotmap.rs: SlotMap
    cap,               \* MAX_SLOTS
    occupied,          \* SlotMap.occupied (u8 bitset)
    storage,           \* SlotMap.storage, slot index -> value
    held,              \* per slot: Held(v), v inserted and not removed since, or Empty
    lastOp,            \* the last call made on the SlotMap and what it returned
    \* ---- streak.rs: StreakSpawner (its SlotMap is cap, occupied, storage)
    oscs,              \* the oscillators the spawner was built with
    lastTick,          \* what the last StreakSpawner::tick sampled and did
    \* ---- streak.rs: ArcStreak
    arc,               \* the const parameters ARC_LEN, TOTAL_ARCS
    arc_position,      \* ArcStreak.position (u8, 7.1 fixed point)
    arcTick,           \* what the last ArcStreak::tick sampled and did
    \* ---- osc.rs: mod math
    operands,          \* the current values of the two children
    outputs,           \* what get() of each combinator returned, or a panic
    \* ---- osc.rs: the primitive oscillators; rand.rs
    built,             \* which oscillator the program has constructed
    triangle,          \* Triangle: counter, direction
    square,            \* Square: counter, duty_cycle (a Constant)
    with_frequency,    \* WithFrequency: inner (a Sawtooth's counter),
                       \*   frequency (a Constant), frac (clock.frac)
    random_pulse,      \* RandomPulse: counter, min_count, max_count (Constants)
    RNG_STATE,         \* rand.rs: the generator's state (u16)
    call,              \* the last call of rand::range_u8 and what it returned
    asked,             \* the last color query of an Rng-driven ArcStreak
    steps,             \* ticks, calls or queries made since construction
    \* ---- arduino/src/main.rs: the frame loop
    pc,                \* the statement of the loop body to run next
    frame              \* what the pass under way has done so far

starVars == <<layout, current_spine, current_position, position_offset,
              queries, colors, lastRet, fault, ub>>
slotVars == <<cap, occupied, storage, held, lastOp>>
streakVars == <<oscs, lastTick>>
arcVars == <<arc, arc_position, arcTick>>
oscVars == <<operands, outputs>>
genVars == <<built, triangle, square, with_frequency, random_pulse, RNG_STATE,
             call, asked, steps>>
frameVars == <<pc, frame>>
patternVars == <<streakVars, arcVars, oscVars, genVars, frameVars>>
vars == <<starVars, slotVars, patternVars>>

(***************************************************************************)
(* Bounds of the model.                                                    *)
(***************************************************************************)
MaxSpines == 2
MaxSpineLen == 2
MaxTipLen == 1
MaxArcLen == 1
MaxSlots == 4
MaxTicks == 520
MaxCalls == 3
MaxQueries == 4
MaxFrames == 2

(***************************************************************************)
(* Machine integers.                                                       *)
(***************************************************************************)
U8Mod == 256

\* u8 arithmetic as the release build computes it (wrapping)
U8(x) == x % U8Mod

RECURSIVE Pow2(_)
Pow2(n) == IF n = 0 THEN 1 ELSE 2 * Pow2(n - 1)

(***************************************************************************)
(* star.rs: Layout.  A layout is a record of the spine count, the arc      *)
(* count and the three per-spine run lengths (sequences indexed from 1;    *)
(* spine index s of the code is element s + 1).                            *)
(***************************************************************************)
spines == layout.spines

spine_len_at(s) == layout.spine_lens[s + 1]

tip_len_at(s) == layout.tip_lens[s + 1]

arc_len_at(s) == layout.arc_lens[s + 1]

RECURSIVE LedSum(_, _)
LedSum(l, n) ==
    IF n = 0 THEN 0
    ELSE LedSum(l, n - 1) + 2 * l.spine_lens[n] + l.tip_lens[n] + l.arc_lens[n]

\* Layout::leds as the layouts of the repository declare it: out + tip + back + arc
LayoutLeds(l) == LedSum(l, l.spines) % 65536

leds == LayoutLeds(layout)

Layouts ==
    UNION { [spines : {n}, arcs : {n},
             spine_lens : [1..n -> 0..MaxSpineLen],
             tip_lens : [1..n -> 0..MaxTipLen],
             arc_lens : [1..n -> 0..MaxArcLen]] : n \in 0..MaxSpines }

(***************************************************************************)
(* star.rs tests: TestPattern, a pattern that is a pure function of the    *)
(* query; it encodes the query in the color.                               *)
(***************************************************************************)
Hsv(h, s, v) == [h |-> h, s |-> s, v |-> v]

spine_color_at(spine, led) == Hsv(spine.index, led.index, 255)

spine_tip_color_at(spine, led) == Hsv(spine.index, 255, 128)

arc_color_at(spine, led) == Hsv(spine.index, led.index, 64)

Index(i, t) == [index |-> i, total |-> t]

Query(kind, spine, led) == [kind |-> kind, spine |-> spine, led |-> led]

PatternColor(q) ==
    CASE q.kind = "spine" -> spine_color_at(q.spine, q.led)
      [] q.kind = "tip" -> spine_tip_color_at(q.spine, q.led)
      [] q.kind = "arc" -> arc_color_at(q.spine, q.led)

(***************************************************************************)
(* star.rs: StarIter.                                                      *)
(***************************************************************************)
Positions == {"SpineOut", "SpineTip", "SpineBack", "Arc"}

\* PhaseDone with the comparison off by one
PhaseDoneLate(off, len) == off > len

\* advance: `self.position_offset >= len`, the end of the current phase
PhaseDone(off, len) == off >= len

\* advance, Position::SpineOut: the phase that follows spine-out
AfterSpineOut(tip_len) == IF tip_len = 0 THEN "SpineBack" ELSE "SpineTip"

\* advance: "move to next spine"; `more` is advance's return value
NextSpine(sp, pos, off) ==
    IF sp + 1 >= spines
    THEN [spine |-> sp + 1, pos |-> pos, off |-> off, more |-> FALSE]
    ELSE [spine |-> sp + 1, pos |-> "SpineOut", off |-> 0, more |-> TRUE]

\* advance: the iterator state after one step from (sp, pos, off0)
Advance(sp, pos, off0) ==
    LET off == U8(off0 + 1)
        stay == [spine |-> sp, pos |-> pos, off |-> off, more |-> TRUE]
    IN  CASE pos = "SpineOut" ->
               IF PhaseDone(off, spine_len_at(sp))
               THEN [stay EXCEPT !.pos = AfterSpineOut(tip_len_at(sp)), !.off = 0]
               ELSE stay
          [] pos = "SpineTip" ->
               IF PhaseDone(off, tip_len_at(sp))
               THEN [stay EXCEPT !.pos = "SpineBack", !.off = 0]
               ELSE stay
          [] pos = "SpineBack" ->
               IF PhaseDone(off, spine_len_at(sp))
               THEN IF arc_len_at(sp) = 0
                    THEN NextSpine(sp, pos, off)
                    ELSE [stay EXCEPT !.pos = "Arc", !.off = 0]
               ELSE stay
          [] pos = "Arc" ->
               IF PhaseDone(off, arc_len_at(sp))
               THEN NextSpine(sp, pos, off)
               ELSE stay

\* SpineBackLed without the mirroring
SpineBackLedForward(spine_len, off) == off

\* next, Position::SpineBack: the mirrored LED index, `spine_len - 1 - offset` as u8
SpineBackLed(spine_len, off) == U8(spine_len - 1 - off)

\* next: the length the current phase assumes positive (assume!(len > 0))
PhaseLen ==
    CASE current_position = "SpineOut" -> spine_len_at(current_spine)
      [] current_position = "SpineTip" -> tip_len_at(current_spine)
      [] current_position = "SpineBack" -> spine_len_at(current_spine)
      [] current_position = "Arc" -> arc_len_at(current_spine)

\* next: the pattern query of the current position
NextQuery ==
    LET spine_index == Index(current_spine, spines)
    IN  CASE current_position = "SpineOut" ->
               Query("spine", spine_index,
                     Index(position_offset, spine_len_at(current_spine)))
          [] current_position = "SpineTip" ->
               Query("tip", spine_index,
                     Index(position_offset, tip_len_at(current_spine)))
          [] current_position = "SpineBack" ->
               Query("spine", spine_index,
                     Index(SpineBackLed(spine_len_at(current_spine), position_offset),
                           spine_len_at(current_spine)))
          [] current_position = "Arc" ->
               Query("arc", spine_index,
                     Index(position_offset, arc_len_at(current_spine)))

\* size_hint: (leds, Some(leds)); ExactSizeIterator::len returns the lower bound
size_hint == leds

\* next, the part after the assume!: query the pattern, advance, return Some(color)
Emit ==
    LET a == Advance(current_spine, current_position, position_offset)
    IN  /\ queries' = Append(queries, NextQuery)
        /\ colors' = Append(colors, PatternColor(NextQuery))
        /\ current_spine' = a.spine
        /\ current_position' = a.pos
        /\ position_offset' = a.off
        /\ lastRet' = "some"

\* Star::iter taking up the position of the iterator before it
IterResumed ==
    /\ fault = "none"
    /\ queries' = <<>>
    /\ colors' = <<>>
    /\ lastRet' = "fresh"
    /\ UNCHANGED <<layout, current_spine, current_position, position_offset,
                   fault, ub>>
    /\ UNCHANGED <<slotVars, patternVars>>

\* Star::iter: a new StarIter over the same star
Iter ==
    /\ fault = "none"
    /\ current_spine' = 0
    /\ current_position' = "SpineOut"
    /\ position_offset' = 0
    /\ queries' = <<>>
    /\ colors' = <<>>
    /\ lastRet' = "fresh"
    /\ UNCHANGED <<layout, fault, ub>>
    /\ UNCHANGED <<slotVars, patternVars>>

\* next() on an exhausted iterator: None
NextNone ==
    /\ fault = "none"
    /\ current_spine >= spines
    /\ lastRet' = "none"
    /\ UNCHANGED <<layout, current_spine, current_position, position_offset,
                   queries, colors, fault, ub>>
    /\ UNCHANGED <<slotVars, patternVars>>

\* next() where the assume! holds: Some(color)
NextSome ==
    /\ fault = "none"
    /\ current_spine < spines
    /\ PhaseLen > 0
    /\ Emit
    /\ UNCHANGED <<layout, fault, ub>>
    /\ UNCHANGED <<slotVars, patternVars>>

\* next() where the assume! fails, debug build: debug_assert! panics.  (A build
\* that has run through unreachable_unchecked() before is a release build.)
NextAssumePanic ==
    /\ fault = "none"
    /\ current_spine < spines
    /\ PhaseLen = 0
    /\ ~ub
    /\ fault' = "panic"
    /\ UNCHANGED <<layout, current_spine, current_position, position_offset,
                   queries, colors, lastRet, ub>>
    /\ UNCHANGED <<slotVars, patternVars>>

\* next() where the assume! fails, release build (no debug_assert! has
\* panicked): unreachable_unchecked() is executed.  The behaviour is undefined;
\* the build either runs on through the code as written (wrapping u8
\* arithmetic) or traps.
NextAssumeUB ==
    /\ fault = "none"
    /\ current_spine < spines
    /\ PhaseLen = 0
    /\ ub' = TRUE
    /\ \/ Emit /\ fault' = fault
       \/ /\ fault' = "abort"
          /\ UNCHANGED <<current_spine, current_position, position_offset,
                         queries, colors, lastRet>>
    /\ UNCHANGED layout
    /\ UNCHANGED <<slotVars, patternVars>>

StarNext == Iter \/ NextNone \/ NextSome \/ NextAssumePanic \/ NextAssumeUB

(***************************************************************************)
(* streak.rs: StreakState, two bytes.  A state is the pair <<data[0],       *)
(* data[1]>>: the head position in 7.1 fixed point, and the length (upper  *)
(* five bits) with the velocity code (lower three bits).                   *)
(***************************************************************************)
\* saturating_add taken as wrapping_add
wrapping_add_u8(a, b) == U8(a + b)

\* u8::saturating_add
saturating_add(a, b) == IF a + b > U8Mod - 1 THEN U8Mod - 1 ELSE a + b

\* u8::saturating_sub
saturating_sub(a, b) == IF a < b THEN 0 ELSE a - b

\* StreakState::default
StreakState_default == <<0, 0>>

\* StreakState::new: [0, (length << 3) | (velocity & 0x07)]
StreakState_new(length, velocity) == <<0, U8(length * 8) + (velocity % 8)>>

position_fixed(st) == st[1]

\* data[0] >> 1
position(st) == st[1] \div 2

\* data[1] >> 3
length(st) == st[2] \div 8

\* data[1] & 0x07
velocity_multiplier(st) == st[2] % 8

\* velocity_to_multiplier without the base speed of 1
velocity_to_multiplier_from_zero(velocity_3bit) == U8(velocity_3bit * 3) \div 7

\* 1 + (velocity_3bit * 3) / 7
velocity_to_multiplier(velocity_3bit) == 1 + U8(velocity_3bit * 3) \div 7

\* StreakState::tick leaving the head where it is
StreakState_tick_held(st) == st

\* StreakState::tick
StreakState_tick(st) ==
    <<saturating_add(position_fixed(st),
                     velocity_to_multiplier(velocity_multiplier(st))),
      st[2]>>

\* min of two u8
Min(a, b) == IF a < b THEN a ELSE b

Max(a, b) == IF a > b THEN a ELSE b

\* map_i8_to_5bit without the offset of 128
map_i8_to_5bit_unsigned(value) == Min(U8(value) \div 8, 31)

\* ((value as u8).wrapping_add(128) >> 3).min(31)
map_i8_to_5bit(value) == Min(U8(U8(value) + 128) \div 8, 31)

\* ((value as u8).wrapping_add(128) >> 5).min(7)
map_i8_to_3bit(value) == Min(U8(U8(value) + 128) \div 32, 7)

\* the retain closure of StreakSpawner::tick, capturing total_leds (a u8)
Cull(total_leds) == [total_leds |-> total_leds]

IsCull(f) == "total_leds" \in DOMAIN f

\* the closure's `tail_pos`, of the streak it has just ticked
tail_pos(st) == saturating_sub(position(st), length(st))

\* KeepAlive with <= for <
KeepAliveInclusive(tail, total_leds) == tail <= total_leds

\* the closure's result: keep alive while the tail is visible
KeepAlive(tail, total_leds) == tail < total_leds

(***************************************************************************)
(* slotmap.rs: SlotMap<V, S, MAX_SLOTS>.  `occupied` is the u8 bitset; the  *)
(* bit operations are computed on the number.                              *)
(***************************************************************************)
Values == {10, 20}

\* the value the backing array is filled with at construction ([0; N])
Blank == 0

\* `held` of a slot that holds nothing, and of a slot that holds v
Empty == <<>>

Held(v) == <<v>>

\* (x >> i) & 1
Bit(x, i) == (x \div Pow2(i)) % 2

\* x | (1 << i)
SetBit(x, i) == IF Bit(x, i) = 1 THEN x ELSE x + Pow2(i)

\* ClearBit as a toggle: x ^ (1 << i)
ToggleBit(x, i) == IF Bit(x, i) = 1 THEN x - Pow2(i) ELSE x + Pow2(i)

\* x & !(1 << i)
ClearBit(x, i) == IF Bit(x, i) = 1 THEN x - Pow2(i) ELSE x

\* !x on a u8
Not8(x) == (U8Mod - 1) - x

RECURSIVE TrailingZerosFrom(_, _)
TrailingZerosFrom(x, i) ==
    IF i >= 8 THEN 8
    ELSE IF Bit(x, i) = 1 THEN i
    ELSE TrailingZerosFrom(x, i + 1)

RECURSIVE LeadingZerosFrom(_, _)
LeadingZerosFrom(x, n) ==
    IF n >= 8 THEN 8
    ELSE IF Bit(x, 7 - n) = 1 THEN n
    ELSE LeadingZerosFrom(x, n + 1)

\* u8::leading_zeros, taken where trailing_zeros is meant
LeadingZeros(x) == LeadingZerosFrom(x, 0)

\* u8::trailing_zeros
TrailingZeros(x) == TrailingZerosFrom(x, 0)

RECURSIVE CountOnes(_)
\* u8::count_ones
CountOnes(x) == IF x = 0 THEN 0 ELSE (x % 2) + CountOnes(x \div 2)

\* FullMask without the `- 1`
FullMaskOffByOne(n) == Pow2(n)

\* is_full: the mask of MAX_SLOTS low bits
FullMask(n) == IF n = 8 THEN 255 ELSE Pow2(n) - 1

\* is_full comparing against all eight bits, whatever MAX_SLOTS is
is_full_of_eight == occupied = 255

\* SlotMap::is_full
is_full == occupied = FullMask(cap)

is_empty == occupied = 0

\* SlotMap::len
len == CountOnes(occupied)

NoneRet == [some |-> FALSE, index |-> 0]

SomeRet(i) == [some |-> TRUE, index |-> i]

NoVisit == <<>>

Op(op, arg, ret, visited) == [op |-> op, arg |-> arg, ret |-> ret, visited |-> visited]

\* the predicates handed to retain: f may change the value it is shown
\* (&mut V) and keeps the slot when the value it leaves is in `keep`
Preds == [touch : BOOLEAN, keep : SUBSET Values]

\* what a touching predicate writes into the value it is shown
Touch(v) == IF v = 10 THEN 20 ELSE 10

\* the value f leaves in the slot: the streak closure ticks the streak
PredValue(f, v) ==
    IF IsCull(f) THEN StreakState_tick(v)
    ELSE IF f.touch THEN Touch(v) ELSE v

\* whether f keeps the slot
PredKeeps(f, v) ==
    IF IsCull(f) THEN KeepAlive(tail_pos(PredValue(f, v)), f.total_leds)
    ELSE PredValue(f, v) \in f.keep

\* RemainingAfter counting every slot looked at, occupied or not
RemainingAfterAnySlot(remaining, wasOccupied) == remaining - 1

\* retain: `remaining` after slot i has been looked at
RemainingAfter(remaining, wasOccupied) ==
    IF wasOccupied THEN remaining - 1 ELSE remaining

RECURSIVE RetainLoop(_, _, _, _, _, _)
\* retain: the loop `for i in 0..MAX_SLOTS` from slot i on, with the captured count
RetainLoop(f, i, remaining, occ, stor, visited) ==
    IF i >= cap \/ remaining = 0
    THEN [occupied |-> occ, storage |-> stor, visited |-> visited]
    ELSE IF Bit(occ, i) # 0
         THEN RetainLoop(f, i + 1, RemainingAfter(remaining, TRUE),
                         IF PredKeeps(f, stor[i]) THEN occ ELSE ClearBit(occ, i),
                         [stor EXCEPT ![i] = PredValue(f, stor[i])],
                         Append(visited, i))
         ELSE RetainLoop(f, i + 1, RemainingAfter(remaining, FALSE),
                         occ, stor, visited)

RECURSIVE SlotIterFromAnySlot(_, _, _, _)
\* SlotMap::iter without the test of the occupied bit
SlotIterFromAnySlot(i, n, occ, stor) ==
    IF i >= cap \/ n = 0 THEN <<>>
    ELSE <<stor[i]>> \o SlotIterFromAnySlot(i + 1, n - 1, occ, stor)

RECURSIVE SlotIterFrom(_, _, _, _)
\* SlotMap::iter from slot i on: the occupied slots' values, at most n of them
SlotIterFrom(i, n, occ, stor) ==
    IF i >= cap \/ n = 0 THEN <<>>
    ELSE IF Bit(occ, i) # 0
         THEN <<stor[i]>> \o SlotIterFrom(i + 1, n - 1, occ, stor)
         ELSE SlotIterFrom(i + 1, n, occ, stor)

\* insert on a full map: None
InsertFull(value) ==
    /\ is_full
    /\ lastOp' = Op("insert", value, NoneRet, NoVisit)
    /\ UNCHANGED <<cap, occupied, storage, held>>

\* insert on a map with a free slot: Some(index)
InsertFree(value) ==
    /\ ~is_full
    /\ LET inverted == Not8(occupied)
           index == TrailingZeros(inverted)
       IN  /\ occupied' = SetBit(occupied, index)
           /\ storage' = [storage EXCEPT ![index] = value]
           /\ held' = [held EXCEPT ![index] = Held(value)]
           /\ lastOp' = Op("insert", value, SomeRet(index), NoVisit)
    /\ UNCHANGED cap

Insert ==
    /\ \E value \in Values : InsertFull(value) \/ InsertFree(value)
    /\ UNCHANGED <<starVars, patternVars>>

\* remove(index), index < MAX_SLOTS as its debug_assert! requires
Remove ==
    /\ \E index \in 0..(cap - 1) :
           /\ occupied' = ClearBit(occupied, index)
           /\ held' = [held EXCEPT ![index] = Empty]
           /\ lastOp' = Op("remove", index, NoneRet, NoVisit)
           /\ UNCHANGED <<cap, storage>>
    /\ UNCHANGED <<starVars, patternVars>>

\* retain(f)
Retain ==
    /\ \E f \in Preds :
           LET r == RetainLoop(f, 0, len, occupied, storage, NoVisit)
           IN  /\ occupied' = r.occupied
               /\ storage' = r.storage
               /\ held' = [i \in 0..(cap - 1) |->
                             IF held[i] = Empty \/ ~PredKeeps(f, held[i][1])
                             THEN Empty
                             ELSE Held(PredValue(f, held[i][1]))]
               /\ lastOp' = Op("retain", f, NoneRet, r.visited)
               /\ UNCHANGED cap
    /\ UNCHANGED <<starVars, patternVars>>

\* iter() or iter_mut(), drained by a caller that only reads: the values
\* yielded, in the order they came
Iterate ==
    /\ \E op \in {"iter", "iter_mut"} :
           lastOp' = Op(op, 0, NoneRet, SlotIterFrom(0, len, occupied, storage))
    /\ UNCHANGED <<cap, occupied, storage, held>>
    /\ UNCHANGED <<starVars, patternVars>>

SlotNext == Insert \/ Remove \/ Retain \/ Iterate

(***************************************************************************)
(* streak.rs: StreakSpawner.  Its SlotMap<StreakState, Streaks, 8> is the   *)
(* allocator state cap, occupied, storage; the oscillators are any         *)
(* oscillators, so a tick reads four Signals that the model draws.         *)
(***************************************************************************)
\* MAX_SLOTS of StreakSpawner.streaks
StreakSlots == 8

\* the four oscillator outputs a tick reads, each after its oscillator ticked
Signals(spawn, length_signal, velocity_signal, total) ==
    [spawn |-> spawn, length |-> length_signal, velocity |-> velocity_signal,
     total |-> total]

NoSignals == Signals(0, 0, 0, 0)

NoTick == [signals |-> NoSignals, stored |-> NoneRet, afterSpawn |-> 0,
           visited |-> NoVisit]

\* oscillators that may return any Signal on any tick (Rng, Sawtooth, ...)
NoOscs == [length |-> 0, velocity |-> 0, total |-> 0, spawn |-> "any",
           fired |-> FALSE]

\* SlotMap::insert as a function of the allocator state
SlotInsert(occ, stor, value) ==
    IF occ = FullMask(cap)
    THEN [occupied |-> occ, storage |-> stor, ret |-> NoneRet]
    ELSE LET inverted == Not8(occ)
             index == TrailingZeros(inverted)
         IN  [occupied |-> SetBit(occ, index),
              storage |-> [stor EXCEPT ![index] = value],
              ret |-> SomeRet(index)]

\* self.streaks.iter()
streaks_iter == SlotIterFrom(0, len, occupied, storage)

\* tick: `self.spawner.get() > 0`, taken as >= 0
SpawnTriggeredAtZero(spawn) == spawn >= 0

\* tick: `self.spawner.get() > 0`
SpawnTriggered(spawn) == spawn > 0

\* tick: the check `if length > 0` left out
AnyLength(quantized) == TRUE

\* tick: `if length > 0`
SpawnLength(quantized) == quantized > 0

\* StreakSpawner::tick once the five oscillators have ticked: spawn, then
\* advance and cull every live streak
StreakSpawner_tick(in) ==
    LET quantized == map_i8_to_5bit(in.length)
        velocity == map_i8_to_3bit(in.velocity)
        spawns == SpawnTriggered(in.spawn) /\ ~is_full /\ SpawnLength(quantized)
        total_leds == U8(in.total)
    IN  \E ins \in { IF spawns
                      THEN SlotInsert(occupied, storage,
                                      StreakState_new(quantized, velocity))
                      ELSE [occupied |-> occupied, storage |-> storage,
                            ret |-> NoneRet] } :
        \E r \in { RetainLoop(Cull(total_leds), 0, CountOnes(ins.occupied),
                               ins.occupied, ins.storage, NoVisit) } :
            /\ occupied' = r.occupied
            /\ storage' = r.storage
            /\ lastTick' = [signals |-> in, stored |-> ins.ret,
                            afterSpawn |-> ins.occupied, visited |-> r.visited]
            /\ UNCHANGED <<cap, held, lastOp>>

\* calculate_streak_brightness: `if distance > length { continue }`
OutOfReach(distance, streak_length) == distance > streak_length

\* brightness_factor growing with the distance from the head
brightness_factor_by_distance(streak_length, distance) ==
    U8(((distance * 255) % 65536) \div streak_length)

\* (((length - distance) as u16 * 255) / length as u16) as u8
brightness_factor(streak_length, distance) ==
    U8((((streak_length - distance) * 255) % 65536) \div streak_length)

RECURSIVE BrightnessLoop(_, _, _)
\* calculate_streak_brightness: the loop over the streaks still to be looked at
BrightnessLoop(streaks, max_brightness, led) ==
    IF streaks = <<>> THEN max_brightness
    ELSE LET streak == Head(streaks)
             head_pos == position(streak)
             streak_length == length(streak)
         IN  IF head_pos = led.index THEN 255
             ELSE IF head_pos < led.index
                  THEN BrightnessLoop(Tail(streaks), max_brightness, led)
             ELSE IF OutOfReach(head_pos - led.index, streak_length)
                  THEN BrightnessLoop(Tail(streaks), max_brightness, led)
             ELSE BrightnessLoop(Tail(streaks),
                                 Max(max_brightness,
                                     brightness_factor(streak_length,
                                                       head_pos - led.index)),
                                 led)

calculate_streak_brightness(led) == BrightnessLoop(streaks_iter, 0, led)

\* calculate_streak_color keeping the brighter of the two values
calculate_streak_color_max(color, led) ==
    [color EXCEPT !.v = Max(color.v, calculate_streak_brightness(led))]

\* calculate_streak_color: color.v = brightness
calculate_streak_color(color, led) ==
    [color EXCEPT !.v = calculate_streak_brightness(led)]

\* Pattern for StreakSpawner over the inner TestPattern, the three queries
StreakColor(q) == calculate_streak_color(PatternColor(q), q.led)

\* the Signals the spawner's oscillators return
SpawnSignals == {0, 1}

LengthSignals == {-128, -112, -104}

VelocitySignals == {-32, 127}

\* the constant Signals of the total-length oscillator
StreakTotals == {0, 1}

\* tick with spawn, length and velocity oscillators that may return any of
\* these Signals, and a Constant total-length oscillator
SpawnerTick ==
    /\ \E spawn \in SpawnSignals, length_signal \in LengthSignals,
          velocity_signal \in VelocitySignals :
           StreakSpawner_tick(Signals(spawn, length_signal, velocity_signal,
                                      oscs.total))
    /\ UNCHANGED oscs
    /\ UNCHANGED <<starVars, arcVars, oscVars, genVars, frameVars>>

StreakNext == SpawnerTick

\* the constant Signals of the length, velocity and total-length oscillators
LifeLengths == {-128, -120, -112, -104, 0, 127}

LifeVelocities == { 32 * c - 128 : c \in 0..7 }

LifeTotals == {-1, 0, 1, 2, 35, 127}

\* the spawn oscillators: positive on one tick, or Constant<1>
SpawnOscs == {"once", "always"}

\* the Signals of a spawn oscillator that is positive once
OnceSignals == {-128, 0, 1}

\* the Signals the spawn oscillator may return on this tick
SpawnOutputs ==
    IF oscs.spawn = "always" THEN {1}
    ELSE IF oscs.fired THEN { x \in OnceSignals : ~SpawnTriggered(x) }
    ELSE OnceSignals

\* tick with Constant length, velocity and total-length oscillators
LifeTick ==
    /\ oscs.spawn \in SpawnOscs
    /\ \E spawn \in SpawnOutputs :
           /\ StreakSpawner_tick(Signals(spawn, oscs.length, oscs.velocity,
                                         oscs.total))
           /\ oscs' = [oscs EXCEPT !.fired = @ \/ SpawnTriggered(spawn)]
    /\ UNCHANGED <<starVars, arcVars, oscVars, genVars, frameVars>>

(***************************************************************************)
(* streak.rs: ArcStreak<Length, Velocity, Inner, ARC_LEN, TOTAL_ARCS>.  The *)
(* arcs are one ring of ARC_LEN * TOTAL_ARCS LEDs; `position` is the head  *)
(* in 7.1 fixed point.  The inner pattern is the TestPattern.              *)
(***************************************************************************)
NoArc == [ARC_LEN |-> 0, TOTAL_ARCS |-> 0]

\* the Signals the velocity and length oscillators hold, and the position
\* the last tick started from
ArcTicked(velocity_signal, length_signal, previous) ==
    [velocity |-> velocity_signal, length |-> length_signal,
     previous |-> previous]

NoArcTick == ArcTicked(0, 0, 0)

ARC_LEN == arc.ARC_LEN

TOTAL_ARCS == arc.TOTAL_ARCS

\* const fn total_leds
total_leds == ARC_LEN * TOTAL_ARCS

\* const fn total_led_fixed: (ARC_LEN * TOTAL_ARCS) << 1, a u8
total_led_fixed == U8(total_leds * 2)

\* head_position: (spine, led) of position >> 1
head_position(pos) == <<(pos \div 2) \div ARC_LEN, (pos \div 2) % ARC_LEN>>

\* global_led_index
global_led_index(spine, led) == U8(spine * ARC_LEN + led)

\* tick: the new position, self.position.wrapping_add(vel_mult) % total_led_fixed
ArcAdvance(pos, velocity_signal) ==
    U8(pos + velocity_to_multiplier(map_i8_to_3bit(velocity_signal)))
        % total_led_fixed

\* arc_distance measuring the other way round the ring
arc_distance_mirrored(head_global, led_global) ==
    IF head_global >= led_global
    THEN head_global - led_global
    ELSE led_global - head_global

\* arc_color_at: the distance from the head back to the LED, with wraparound
arc_distance(head_global, led_global) ==
    IF head_global >= led_global
    THEN head_global - led_global
    ELSE U8(U8(total_leds - led_global) + head_global)

\* ArcStreak::arc_color_at where self.length.get() returns length_signal
ArcStreak_color(arc_index, led, length_signal) ==
    LET color == arc_color_at(arc_index, led)
        streak_length == map_i8_to_5bit(length_signal)
        head == head_position(arc_position)
        head_global == global_led_index(head[1], head[2])
        led_global == global_led_index(arc_index.index, led.index)
        distance == arc_distance(head_global, led_global)
    IN  IF streak_length = 0 THEN [color EXCEPT !.v = 0]
        ELSE IF distance <= streak_length
             THEN [color EXCEPT
                     !.v = brightness_factor(streak_length, distance)]
             ELSE [color EXCEPT !.v = 0]

\* ArcStreak::arc_color_at over a length oscillator that holds its Signal
\* between ticks
ArcStreak_arc_color_at(arc_index, led) ==
    ArcStreak_color(arc_index, led, arcTick.length)

\* the const parameters: a ring of 1, 6, 60 (config.rs), 126 and 127 LEDs
ArcParameters == {<<1, 1>>, <<2, 3>>, <<5, 12>>, <<63, 2>>, <<127, 1>>}

\* the Signals the velocity and the length oscillator return
ArcVelocities == { 32 * c - 128 : c \in 0..7 }

ArcLengths == {-128, -120, -96, 127}

\* ArcStreak::tick
ArcTick ==
    /\ \E velocity_signal \in ArcVelocities, length_signal \in ArcLengths :
           /\ arc_position' = ArcAdvance(arc_position, velocity_signal)
           /\ arcTick' = ArcTicked(velocity_signal, length_signal, arc_position)
    /\ UNCHANGED arc
    /\ UNCHANGED <<starVars, slotVars, streakVars, oscVars, genVars, frameVars>>

ArcNext == ArcTick

(***************************************************************************)
(* osc.rs: mod math, the binary combinators, and Neg; pattern.rs: the       *)
(* Oscillator pattern.  A combinator holds its children and no state of    *)
(* its own; get() applies one i8 method to the children's current values.  *)
(* Each combinator is built over children of its own that hold the values  *)
(* `operands`: Sawtooth oscillators at any counters (or Constants, which   *)
(* are never ticked).  The Oscillator pattern has the first as its h, the  *)
(* second as its s and the Constant 127 as its v.                          *)
(***************************************************************************)
\* Value = i8
Signal == -128..127

\* the bits of a u8 read as an i8
AsI8(x) == IF x >= 128 THEN x - U8Mod ELSE x

\* i8 saturation
Saturate(x) == IF x < -128 THEN -128 ELSE IF x > 127 THEN 127 ELSE x

\* the quotient of Rust's `/` on integers: rounded towards zero
Quotient(a, b) ==
    IF (a < 0) = (b < 0)
    THEN (IF a < 0 THEN -a ELSE a) \div (IF b < 0 THEN -b ELSE b)
    ELSE -((IF a < 0 THEN -a ELSE a) \div (IF b < 0 THEN -b ELSE b))

\* what a call returned, or that it panicked
Returned(v) == [panicked |-> FALSE, value |-> v]

Panicked == [panicked |-> TRUE, value |-> 0]

\* Neg::get over a child whose value is `value`, as two's complement would
\* negate it
Neg_get_wrapping(value) == AsI8(U8(-value))

\* Neg::get over a child whose value is `value`
Neg_get(value) == IF value = -128 THEN 127 ELSE -value

\* the combinators impl_math! defines, and Neg
Combinators ==
    {"Add", "SaturatingAdd", "Sub", "SaturatingSub", "Mul", "SaturatingMul",
     "Div", "SaturatingDiv", "Rem", "Max", "Min", "Neg"}

\* get() of the combinator `name` over children whose values are a and b:
\* self.0.get().$op(self.1.get()); the division methods panic on a zero divisor.
\* Neg has one child, a.
combinator_get(name, a, b) ==
    CASE name = "Add" -> Returned(AsI8(U8(a + b)))
      [] name = "SaturatingAdd" -> Returned(Saturate(a + b))
      [] name = "Sub" -> Returned(AsI8(U8(a - b)))
      [] name = "SaturatingSub" -> Returned(Saturate(a - b))
      [] name = "Mul" -> Returned(AsI8(U8(a * b)))
      [] name = "SaturatingMul" -> Returned(Saturate(a * b))
      [] name = "Div" ->
           IF b = 0 THEN Panicked ELSE Returned(AsI8(U8(Quotient(a, b))))
      [] name = "SaturatingDiv" ->
           IF b = 0 THEN Panicked ELSE Returned(Saturate(Quotient(a, b)))
      [] name = "Rem" ->
           IF b = 0 THEN Panicked
           ELSE Returned(AsI8(U8(a - b * Quotient(a, b))))
      [] name = "Max" -> Returned(IF a > b THEN a ELSE b)
      [] name = "Min" -> Returned(IF a < b THEN a ELSE b)
      [] name = "Neg" -> Returned(Neg_get(a))

\* the tick of a combinator, its second child ticked twice
math_tick_twice(a, b) == <<AsI8(U8(a + 1)), AsI8(U8(b + 2))>>

\* the tick of a combinator over two Sawtooth children at a and b:
\* self.0.tick(); self.1.tick(), each a wrapping_add(1)
math_tick(a, b) == <<AsI8(U8(a + 1)), AsI8(U8(b + 1))>>

\* what a color query returned, or that it panicked
ReturnedColor(c) == [panicked |-> FALSE, value |-> c]

PanickedColor == [panicked |-> TRUE, value |-> Hsv(0, 0, 0)]

\* pattern::Oscillator::get over children at h, s and v: each channel is
\* scale(x) = (x as u8) + 128, a u8 sum.  For a negative x the sum overflows:
\* a build with overflow checks panics, one without wraps to x + 128.
Oscillator_get(h, s, v) ==
    IF \E x \in {h, s, v} : U8(x) + 128 > 255
    THEN {PanickedColor,
          ReturnedColor(Hsv(U8(U8(h) + 128), U8(U8(s) + 128), U8(U8(v) + 128)))}
    ELSE {ReturnedColor(Hsv(U8(h) + 128, U8(s) + 128, U8(v) + 128))}

NoOperands == <<0, 0>>

NoOutputs ==
    [read |-> FALSE, again |-> FALSE,
     get |-> [name \in Combinators |-> Returned(0)],
     color |-> ReturnedColor(Hsv(0, 0, 0))]

\* get() of each of the combinators over the two children, and a color query
\* of the Oscillator pattern (the three queries all return self.get()); a
\* call repeated before the next tick runs in the same build as the first
Get ==
    /\ ~outputs.again
    /\ \E c \in IF outputs.read THEN {outputs.color}
                ELSE Oscillator_get(operands[1], operands[2], 127) :
           outputs' = [read |-> TRUE,
                       again |-> outputs.read,
                       get |-> [name \in Combinators |->
                                  combinator_get(name, operands[1], operands[2])],
                       color |-> c]
    /\ UNCHANGED operands
    /\ UNCHANGED <<starVars, slotVars, streakVars, arcVars, genVars, frameVars>>

\* tick() of each of the combinators and of the pattern that has not
\* panicked: the children are ticked
Tick ==
    /\ operands' = math_tick(operands[1], operands[2])
    /\ outputs' = NoOutputs
    /\ UNCHANGED <<starVars, slotVars, streakVars, arcVars, genVars, frameVars>>

OscNext == Get \/ Tick

(***************************************************************************)
(* rand.rs: the process-wide generator, a 16-bit linear congruential       *)
(* generator behind rand::i8 and rand::range_u8.                           *)
(***************************************************************************)
RNG_A == 25173

RNG_C == 13849

\* next: *state = RNG_A.wrapping_mul(*state).wrapping_add(RNG_C), a u16
rand_next(state) == (RNG_A * state + RNG_C) % 65536

\* i8: (val >> 8) as i8 of the state next() left
rand_i8(state) == AsI8(state \div 256)

\* range_u8 with `range` widened to hold max - min + 1
range_u8_wide(min, max, state) ==
    IF min >= max THEN Returned(min)
    ELSE Returned(min + ((state \div 256) % (max - min + 1)))

\* range_u8 without the offset `min`
range_u8_from_zero(min, max, state) ==
    IF min >= max THEN Returned(min)
    ELSE IF U8((max - min) + 1) = 0 THEN Panicked
    ELSE Returned((state \div 256) % U8((max - min) + 1))

\* range_u8 over the state next() left: `range` is the u8 (max - min) + 1,
\* which overflows for (0, 255): a debug build panics at the addition, a
\* release build at `val % 0`
range_u8(min, max, state) ==
    IF min >= max THEN Returned(min)
    ELSE IF U8((max - min) + 1) = 0 THEN Panicked
    ELSE Returned(min + ((state \div 256) % U8((max - min) + 1)))

\* the states RNG_STATE may hold when range_u8(min, max) returns or panics:
\* next() is not called when min >= max, nor by a debug build that panics
rand_after(min, max, state) ==
    IF min >= max THEN {state}
    ELSE IF U8((max - min) + 1) = 0 THEN {state, rand_next(state)}
    ELSE {rand_next(state)}

\* a call of range_u8 and what it returned
Called(min, max, ret) == [min |-> min, max |-> max, ret |-> ret]

NoCall == Called(0, 0, Returned(0))

(***************************************************************************)
(* osc.rs: the primitive oscillators Triangle, Square, RandomPulse and     *)
(* WithFrequency over a Sawtooth.  `built` names the one oscillator the    *)
(* program has constructed; `steps` counts its ticks since construction.   *)
(***************************************************************************)
\* Triangle::new
Triangle_new == [counter |-> 0, direction |-> TRUE]

\* Triangle::tick without the turns
Triangle_tick_unturned(t) ==
    [counter |-> AsI8(U8(t.counter + 1)), direction |-> TRUE]

\* Triangle::tick
Triangle_tick(t) ==
    IF t.direction
    THEN [counter |-> AsI8(U8(t.counter + 1)),
          direction |-> AsI8(U8(t.counter + 1)) # 127]
    ELSE [counter |-> AsI8(U8(t.counter - 1)),
          direction |-> AsI8(U8(t.counter - 1)) = -128]

\* Square::new
Square_new(duty_cycle) == [counter |-> 0, duty_cycle |-> duty_cycle]

\* Square::get
Square_get(sq) == IF sq.counter < sq.duty_cycle THEN -128 ELSE 127

\* FrequencyClock::tick scaling a positive frequency up to 3x
FrequencyClock_tick_slower(frac, freq) ==
    IF freq = 0 THEN [ticks |-> 1, frac |-> frac]
    ELSE LET freq_abs == U8(IF freq < 0 THEN -freq ELSE freq)
             increment == IF freq > 0
                          THEN 16 + U8((freq_abs * 32) \div 127)
                          ELSE 16 - U8((freq_abs * 12) \div 128)
             accumulated == U8(frac + increment)
         IN  [ticks |-> accumulated \div 16, frac |-> accumulated % 16]

\* FrequencyClock::tick carrying no fraction over
FrequencyClock_tick_unaccumulated(frac, freq) ==
    IF freq = 0 THEN [ticks |-> 1, frac |-> frac]
    ELSE LET freq_abs == U8(IF freq < 0 THEN -freq ELSE freq)
             increment == IF freq > 0
                          THEN 16 + U8((freq_abs * 48) \div 127)
                          ELSE 16 - U8((freq_abs * 12) \div 128)
         IN  [ticks |-> increment \div 16, frac |-> 0]

\* FrequencyClock::tick starting from an empty frac on every call
FrequencyClock_tick_forgetful(frac, freq) ==
    IF freq = 0 THEN [ticks |-> 1, frac |-> 0]
    ELSE LET freq_abs == U8(IF freq < 0 THEN -freq ELSE freq)
             increment == IF freq > 0
                          THEN 16 + U8((freq_abs * 48) \div 127)
                          ELSE 16 - U8((freq_abs * 12) \div 128)
         IN  [ticks |-> increment \div 16, frac |-> increment % 16]

\* FrequencyClock::tick: the ticks returned and the frac left
FrequencyClock_tick(frac, freq) ==
    IF freq = 0 THEN [ticks |-> 1, frac |-> frac]
    ELSE LET freq_abs == U8(IF freq < 0 THEN -freq ELSE freq)
             increment == IF freq > 0
                          THEN 16 + U8((freq_abs * 48) \div 127)
                          ELSE 16 - U8((freq_abs * 12) \div 128)
             accumulated == U8(frac + increment)
         IN  [ticks |-> accumulated \div 16, frac |-> accumulated % 16]

\* WithFrequency::new over Sawtooth::new and a Constant frequency
WithFrequency_new(frequency) == [inner |-> 0, frequency |-> frequency, frac |-> 0]

\* RandomPulse::get returning the minimum off the pulse
RandomPulse_get_min(rp) == IF rp.counter = 0 THEN 127 ELSE -128

\* RandomPulse::get
RandomPulse_get(rp) == IF rp.counter = 0 THEN 127 ELSE 0

\* the RandomPulse before new() ticks it: counter 0 over Constant children
RandomPulse_fresh(min_count, max_count) ==
    [counter |-> 0, min_count |-> min_count, max_count |-> max_count]

NoPulse == RandomPulse_fresh(0, 0)

\* RandomPulse::tick over the generator state `state`: count down, or at 0
\* draw the next count with range_u8(min_count as u8, max_count as u8); the
\* outcomes are the oscillator, the generator state and the call made
RandomPulse_tick(rp, state, made) ==
    IF rp.counter > 0
    THEN {[rp |-> [rp EXCEPT !.counter = @ - 1], state |-> state, call |-> made]}
    ELSE LET min == U8(rp.min_count)
             max == U8(rp.max_count)
             ret == range_u8(min, max, rand_next(state))
         IN  {[rp |-> IF ret.panicked THEN rp ELSE [rp EXCEPT !.counter = ret.value],
               state |-> after,
               call |-> Called(min, max, ret)] : after \in rand_after(min, max, state)}

\* the duty cycles, frequencies and (min_count, max_count) the Constant
\* children hold, and the seeds of the generator
DutyCycles == {-128, -1, 0, 1, 64, 127}

Frequencies == {-128, -64, -1, 0, 1, 64, 127}

PulseCounts == {<<5, 10>>, <<5, -128>>, <<0, 3>>, <<3, 3>>, <<10, 5>>, <<0, -1>>}

Seeds == {1, 42, 123}

\* Triangle::tick
TriangleTick ==
    /\ built = "Triangle"
    /\ steps < MaxTicks
    /\ triangle' = Triangle_tick(triangle)
    /\ steps' = steps + 1
    /\ UNCHANGED <<built, square, with_frequency, random_pulse, RNG_STATE, call,
                   asked>>
    /\ UNCHANGED <<starVars, slotVars, streakVars, arcVars, oscVars, frameVars>>

\* Square::tick over a Constant duty cycle: self.counter.wrapping_add(1)
SquareTick ==
    /\ built = "Square"
    /\ steps < MaxTicks
    /\ square' = [square EXCEPT !.counter = AsI8(U8(@ + 1))]
    /\ steps' = steps + 1
    /\ UNCHANGED <<built, triangle, with_frequency, random_pulse, RNG_STATE, call,
                   asked>>
    /\ UNCHANGED <<starVars, slotVars, streakVars, arcVars, oscVars, frameVars>>

\* WithFrequency::tick: the Constant frequency is read, the clock returns the
\* ticks due, and the Sawtooth is ticked (wrapping_add(1)) that many times
WithFrequencyTick ==
    /\ built = "WithFrequency"
    /\ steps < MaxTicks
    /\ \E due \in {FrequencyClock_tick(with_frequency.frac,
                                       with_frequency.frequency)} :
           with_frequency' = [with_frequency EXCEPT
                                !.inner = AsI8(U8(@ + due.ticks)),
                                !.frac = due.frac]
    /\ steps' = steps + 1
    /\ UNCHANGED <<built, triangle, square, random_pulse, RNG_STATE, call, asked>>
    /\ UNCHANGED <<starVars, slotVars, streakVars, arcVars, oscVars, frameVars>>

\* WithFrequency::tick over a Sawtooth frequency (the field `frequency` is its
\* counter, 0 at Sawtooth::new): the Sawtooth ticks, the clock reads it and
\* returns the ticks due, and the inner Sawtooth is ticked that many times
SweptTick ==
    /\ built = "Swept"
    /\ steps < MaxTicks
    /\ \E freq \in {AsI8(U8(with_frequency.frequency + 1))} :
       \E due \in {FrequencyClock_tick(with_frequency.frac, freq)} :
           with_frequency' = [inner |-> AsI8(U8(with_frequency.inner + due.ticks)),
                              frequency |-> freq,
                              frac |-> due.frac]
    /\ steps' = steps + 1
    /\ UNCHANGED <<built, triangle, square, random_pulse, RNG_STATE, call, asked>>
    /\ UNCHANGED <<starVars, slotVars, streakVars, arcVars, oscVars, frameVars>>

\* RandomPulse::tick
RandomPulseTick ==
    /\ built = "RandomPulse"
    /\ steps < MaxTicks
    /\ ~call.ret.panicked
    /\ \E o \in RandomPulse_tick(random_pulse, RNG_STATE, call) :
           /\ random_pulse' = o.rp
           /\ RNG_STATE' = o.state
           /\ call' = o.call
    /\ steps' = steps + 1
    /\ UNCHANGED <<built, triangle, square, with_frequency, asked>>
    /\ UNCHANGED <<starVars, slotVars, streakVars, arcVars, oscVars, frameVars>>

WaveNext ==
    TriangleTick \/ SquareTick \/ WithFrequencyTick \/ SweptTick \/ RandomPulseTick

\* the (min_count, max_count) of the RandomPulse that spawns streaks, and the
\* Constant length, velocity and total-length Signals it is combined with
SpawnPulseCounts == {<<1, 2>>}

PulsedLengths == {-120, 127}

PulsedVelocities == {-128, 96}

PulsedTotals == {2, 35}

\* StreakSpawner::tick with a RandomPulse spawn oscillator, as config.rs
\* builds it: the oscillator ticks, then the spawn reads it
PulsedTick ==
    /\ oscs.spawn = "pulse"
    /\ steps < MaxTicks
    /\ \E o \in RandomPulse_tick(random_pulse, RNG_STATE, call) :
           /\ random_pulse' = o.rp
           /\ RNG_STATE' = o.state
           /\ call' = o.call
           /\ StreakSpawner_tick(Signals(RandomPulse_get(o.rp), oscs.length,
                                         oscs.velocity, oscs.total))
    /\ steps' = steps + 1
    /\ UNCHANGED oscs
    /\ UNCHANGED <<built, triangle, square, with_frequency, asked>>
    /\ UNCHANGED <<starVars, arcVars, oscVars, frameVars>>

LifeNext == LifeTick \/ PulsedTick

(***************************************************************************)
(* rand.rs: calls of range_u8 on the generator.                            *)
(***************************************************************************)
\* the arguments of the calls
RangeArgs == {0, 1, 2, 5, 10, 20, 127, 128, 254, 255}

\* rand::range_u8(min, max)
RangeU8 ==
    /\ steps < MaxCalls
    /\ \E min \in RangeArgs, max \in RangeArgs :
           /\ RNG_STATE' \in rand_after(min, max, RNG_STATE)
           /\ call' = Called(min, max, range_u8(min, max, rand_next(RNG_STATE)))
    /\ steps' = steps + 1
    /\ UNCHANGED <<built, triangle, square, with_frequency, random_pulse, asked>>
    /\ UNCHANGED <<starVars, slotVars, streakVars, arcVars, oscVars, frameVars>>

RandNext == RangeU8

(***************************************************************************)
(* streak.rs: an ArcStreak whose length oscillator is Rng.  Rng::tick does *)
(* nothing; every Rng::get, so every arc_color_at, draws from the          *)
(* generator.  `asked` is the last query since the last tick.              *)
(***************************************************************************)
Asked(arc_index, led, color) == [arc |-> arc_index, led |-> led, color |-> color]

NoAsk == Asked(255, 255, Hsv(0, 0, 0))

\* the ring and the Constant velocity oscillators of the queried ArcStreak
RngArcParameters == {<<2, 3>>}

RngArcVelocities == {-128, 127}

\* ArcStreak::arc_color_at, the length read from Rng::get (rand::i8)
RngArcQuery ==
    /\ steps < MaxQueries
    /\ \E arc_index \in 0..(TOTAL_ARCS - 1), led \in 0..(ARC_LEN - 1) :
           /\ RNG_STATE' = rand_next(RNG_STATE)
           /\ asked' = Asked(arc_index, led,
                             ArcStreak_color(Index(arc_index, TOTAL_ARCS),
                                             Index(led, ARC_LEN),
                                             rand_i8(RNG_STATE')))
    /\ steps' = steps + 1
    /\ UNCHANGED <<built, triangle, square, with_frequency, random_pulse, call>>
    /\ UNCHANGED arcVars
    /\ UNCHANGED <<starVars, slotVars, streakVars, oscVars, frameVars>>

\* ArcStreak::tick: Rng::tick is a no-op, the velocity is a Constant
RngArcTick ==
    /\ arc_position' = ArcAdvance(arc_position, arcTick.velocity)
    /\ arcTick' = ArcTicked(arcTick.velocity, arcTick.length, arc_position)
    /\ asked' = NoAsk
    /\ UNCHANGED arc
    /\ UNCHANGED <<built, triangle, square, with_frequency, random_pulse,
                   RNG_STATE, call, steps>>
    /\ UNCHANGED <<starVars, slotVars, streakVars, oscVars, frameVars>>

QueryNext == RngArcQuery \/ RngArcTick

(***************************************************************************)
(* arduino/src/main.rs: the frame loop.  Each pass ticks the star, writes  *)
(* star.iter() to the strip (Ws2812::write drains the iterator, one color  *)
(* per LED) and delays.  `frame` counts, for the pass under way, the ticks *)
(* made, the traversals started and the colors handed to the driver, and   *)
(* how many colors had been read when the last tick was made.              *)
(***************************************************************************)
Frame(no, ticks, passes, written, ticked_at) ==
    [no |-> no, ticks |-> ticks, passes |-> passes, written |-> written,
     ticked_at |-> ticked_at]

NoFrame == Frame(0, 0, 0, 0, 0)

\* the loop body with the tick left out
LoopAfterUnticked(at) ==
    CASE at = "tick" -> "write"
      [] at = "write" -> "delay"
      [] at = "delay" -> "write"

\* the statement after each statement of the loop body
LoopAfter(at) ==
    CASE at = "tick" -> "write"
      [] at = "write" -> "delay"
      [] at = "delay" -> "tick"

\* star.tick(): Star::tick ticks the pattern
MainTick ==
    /\ pc = "tick"
    /\ frame' = [frame EXCEPT !.ticks = @ + 1, !.ticked_at = frame.written]
    /\ pc' = LoopAfter(pc)
    /\ UNCHANGED starVars
    /\ UNCHANGED <<slotVars, streakVars, arcVars, oscVars, genVars>>

\* ws2812.write(star.iter()): Star::iter builds the StarIter
MainIter ==
    /\ pc = "write"
    /\ frame.passes = 0
    /\ current_spine' = 0
    /\ current_position' = "SpineOut"
    /\ position_offset' = 0
    /\ queries' = <<>>
    /\ colors' = <<>>
    /\ lastRet' = "fresh"
    /\ frame' = [frame EXCEPT !.passes = @ + 1]
    /\ UNCHANGED <<layout, fault, ub, pc>>
    /\ UNCHANGED <<slotVars, streakVars, arcVars, oscVars, genVars>>

\* Ws2812::write, `for hsv in colors`: next() returns a color and its three
\* bytes are written
MainWriteColor ==
    /\ pc = "write"
    /\ frame.passes > 0
    /\ current_spine < spines
    /\ PhaseLen > 0
    /\ Emit
    /\ frame' = [frame EXCEPT !.written = @ + 1]
    /\ UNCHANGED <<layout, fault, ub, pc>>
    /\ UNCHANGED <<slotVars, streakVars, arcVars, oscVars, genVars>>

\* Ws2812::write: next() returns None, the loop ends, the reset pulse is sent
MainWriteEnd ==
    /\ pc = "write"
    /\ frame.passes > 0
    /\ current_spine >= spines
    /\ lastRet' = "none"
    /\ pc' = LoopAfter(pc)
    /\ UNCHANGED <<layout, current_spine, current_position, position_offset,
                   queries, colors, fault, ub, frame>>
    /\ UNCHANGED <<slotVars, streakVars, arcVars, oscVars, genVars>>

\* arduino_hal::delay_ms(TIME_DELAY), and the loop starts its next pass
MainDelay ==
    /\ pc = "delay"
    /\ frame.no < MaxFrames
    /\ pc' = LoopAfter(pc)
    /\ frame' = Frame(frame.no + 1, 0, 0, 0, 0)
    /\ UNCHANGED starVars
    /\ UNCHANGED <<slotVars, streakVars, arcVars, oscVars, genVars>>

MainNext == MainTick \/ MainIter \/ MainWriteColor \/ MainWriteEnd \/ MainDelay

(***************************************************************************)
(* The specifications.                                                     *)
(***************************************************************************)
NoLayout == [spines |-> 0, arcs |-> 0, spine_lens |-> <<>>, tip_lens |-> <<>>,
             arc_lens |-> <<>>]

\* Star::new over any layout of the bounds, then Star::iter; the allocator is
\* that of a program that has only constructed a one-slot map
StarInit ==
    /\ layout \in Layouts
    /\ current_spine = 0
    /\ current_position = "SpineOut"
    /\ position_offset = 0
    /\ queries = <<>>
    /\ colors = <<>>
    /\ lastRet = "fresh"
    /\ fault = "none"
    /\ ub = FALSE
    /\ cap = 1
    /\ occupied = 0
    /\ storage = [i \in {0} |-> Blank]
    /\ held = [i \in {0} |-> Empty]
    /\ lastOp = Op("new", 0, NoneRet, NoVisit)
    /\ oscs = NoOscs
    /\ lastTick = NoTick
    /\ arc = NoArc
    /\ arc_position = 0
    /\ arcTick = NoArcTick
    /\ operands = NoOperands
    /\ outputs = NoOutputs
    /\ built = "none"
    /\ triangle = Triangle_new
    /\ square = Square_new(0)
    /\ with_frequency = WithFrequency_new(0)
    /\ random_pulse = NoPulse
    /\ RNG_STATE = 1
    /\ call = NoCall
    /\ asked = NoAsk
    /\ steps = 0
    /\ pc = "tick"
    /\ frame = NoFrame

\* SlotMap::new for any capacity of the bounds; no star has been built
SlotInit ==
    /\ cap \in 1..MaxSlots
    /\ occupied = 0
    /\ storage = [i \in 0..(cap - 1) |-> Blank]
    /\ held = [i \in 0..(cap - 1) |-> Empty]
    /\ lastOp = Op("new", 0, NoneRet, NoVisit)
    /\ layout = NoLayout
    /\ current_spine = 0
    /\ current_position = "SpineOut"
    /\ position_offset = 0
    /\ queries = <<>>
    /\ colors = <<>>
    /\ lastRet = "fresh"
    /\ fault = "none"
    /\ ub = FALSE
    /\ oscs = NoOscs
    /\ lastTick = NoTick
    /\ arc = NoArc
    /\ arc_position = 0
    /\ arcTick = NoArcTick
    /\ operands = NoOperands
    /\ outputs = NoOutputs
    /\ built = "none"
    /\ triangle = Triangle_new
    /\ square = Square_new(0)
    /\ with_frequency = WithFrequency_new(0)
    /\ random_pulse = NoPulse
    /\ RNG_STATE = 1
    /\ call = NoCall
    /\ asked = NoAsk
    /\ steps = 0
    /\ pc = "tick"
    /\ frame = NoFrame

\* StreakSpawner::new over eight default streak states
StreakInit ==
    /\ cap = StreakSlots
    /\ occupied = 0
    /\ storage = [i \in 0..(StreakSlots - 1) |-> StreakState_default]
    /\ held = [i \in 0..(StreakSlots - 1) |-> Empty]
    /\ lastOp = Op("new", 0, NoneRet, NoVisit)
    /\ oscs \in [length : {0}, velocity : {0}, total : StreakTotals,
                 spawn : {"any"}, fired : {FALSE}]
    /\ lastTick = NoTick
    /\ layout = NoLayout
    /\ current_spine = 0
    /\ current_position = "SpineOut"
    /\ position_offset = 0
    /\ queries = <<>>
    /\ colors = <<>>
    /\ lastRet = "fresh"
    /\ fault = "none"
    /\ ub = FALSE
    /\ arc = NoArc
    /\ arc_position = 0
    /\ arcTick = NoArcTick
    /\ operands = NoOperands
    /\ outputs = NoOutputs
    /\ built = "none"
    /\ triangle = Triangle_new
    /\ square = Square_new(0)
    /\ with_frequency = WithFrequency_new(0)
    /\ random_pulse = NoPulse
    /\ RNG_STATE = 1
    /\ call = NoCall
    /\ asked = NoAsk
    /\ steps = 0
    /\ pc = "tick"
    /\ frame = NoFrame

\* StreakSpawner::new with Constant length, velocity and total-length
\* oscillators and a spawn oscillator of any of the three kinds
LifeInit ==
    /\ cap = StreakSlots
    /\ occupied = 0
    /\ storage = [i \in 0..(StreakSlots - 1) |-> StreakState_default]
    /\ held = [i \in 0..(StreakSlots - 1) |-> Empty]
    /\ lastOp = Op("new", 0, NoneRet, NoVisit)
    /\ oscs \in [length : LifeLengths, velocity : LifeVelocities,
                 total : LifeTotals, spawn : SpawnOscs, fired : {FALSE}]
                 \cup [length : PulsedLengths, velocity : PulsedVelocities,
                       total : PulsedTotals, spawn : {"pulse"}, fired : {FALSE}]
    /\ lastTick = NoTick
    /\ layout = NoLayout
    /\ current_spine = 0
    /\ current_position = "SpineOut"
    /\ position_offset = 0
    /\ queries = <<>>
    /\ colors = <<>>
    /\ lastRet = "fresh"
    /\ fault = "none"
    /\ ub = FALSE
    /\ arc = NoArc
    /\ arc_position = 0
    /\ arcTick = NoArcTick
    /\ operands = NoOperands
    /\ outputs = NoOutputs
    /\ built = "none"
    /\ triangle = Triangle_new
    /\ square = Square_new(0)
    /\ with_frequency = WithFrequency_new(0)
    /\ \E o \in IF oscs.spawn = "pulse"
                THEN UNION { RandomPulse_tick(RandomPulse_fresh(p[1], p[2]),
                                              1, NoCall) :
                               p \in SpawnPulseCounts }
                ELSE { [rp |-> NoPulse, state |-> 1, call |-> NoCall] } :
           /\ random_pulse = o.rp
           /\ RNG_STATE = o.state
           /\ call = o.call
    /\ asked = NoAsk
    /\ steps = 0
    /\ pc = "tick"
    /\ frame = NoFrame

\* ArcStreak::new, the length oscillator holding any of its Signals
ArcInit ==
    /\ arc \in { [ARC_LEN |-> p[1], TOTAL_ARCS |-> p[2]] : p \in ArcParameters }
    /\ arc_position = 0
    /\ arcTick \in { ArcTicked(0, l, 0) : l \in ArcLengths }
    /\ layout = NoLayout
    /\ current_spine = 0
    /\ current_position = "SpineOut"
    /\ position_offset = 0
    /\ queries = <<>>
    /\ colors = <<>>
    /\ lastRet = "fresh"
    /\ fault = "none"
    /\ ub = FALSE
    /\ cap = 1
    /\ occupied = 0
    /\ storage = [i \in {0} |-> Blank]
    /\ held = [i \in {0} |-> Empty]
    /\ lastOp = Op("new", 0, NoneRet, NoVisit)
    /\ oscs = NoOscs
    /\ lastTick = NoTick
    /\ operands = NoOperands
    /\ outputs = NoOutputs
    /\ built = "none"
    /\ triangle = Triangle_new
    /\ square = Square_new(0)
    /\ with_frequency = WithFrequency_new(0)
    /\ random_pulse = NoPulse
    /\ RNG_STATE = 1
    /\ call = NoCall
    /\ asked = NoAsk
    /\ steps = 0
    /\ pc = "tick"
    /\ frame = NoFrame

\* the combinators built over two Constant children of any Signals
OscInit ==
    /\ operands \in Signal \X Signal
    /\ outputs = NoOutputs
    /\ layout = NoLayout
    /\ current_spine = 0
    /\ current_position = "SpineOut"
    /\ position_offset = 0
    /\ queries = <<>>
    /\ colors = <<>>
    /\ lastRet = "fresh"
    /\ fault = "none"
    /\ ub = FALSE
    /\ cap = 1
    /\ occupied = 0
    /\ storage = [i \in {0} |-> Blank]
    /\ held = [i \in {0} |-> Empty]
    /\ lastOp = Op("new", 0, NoneRet, NoVisit)
    /\ oscs = NoOscs
    /\ lastTick = NoTick
    /\ arc = NoArc
    /\ arc_position = 0
    /\ arcTick = NoArcTick
    /\ built = "none"
    /\ triangle = Triangle_new
    /\ square = Square_new(0)
    /\ with_frequency = WithFrequency_new(0)
    /\ random_pulse = NoPulse
    /\ RNG_STATE = 1
    /\ call = NoCall
    /\ asked = NoAsk
    /\ steps = 0
    /\ pc = "tick"
    /\ frame = NoFrame

\* one primitive oscillator built over Constant children: Triangle::new,
\* Square::new, WithFrequency::new over a Sawtooth (or, "Swept", over a
\* Sawtooth with a Sawtooth for its frequency), or RandomPulse::new, which
\* ticks once, on a generator seeded with any of the seeds
WaveInit ==
    /\ built \in {"Triangle", "Square", "WithFrequency", "Swept", "RandomPulse"}
    /\ triangle = Triangle_new
    /\ square \in IF built = "Square"
                  THEN { Square_new(d) : d \in DutyCycles }
                  ELSE { Square_new(0) }
    /\ with_frequency \in IF built = "WithFrequency"
                          THEN { WithFrequency_new(f) : f \in Frequencies }
                          ELSE { WithFrequency_new(0) }
    /\ \E o \in IF built = "RandomPulse"
                THEN UNION { RandomPulse_tick(RandomPulse_fresh(p[1], p[2]),
                                              seed, NoCall) :
                               p \in PulseCounts, seed \in Seeds }
                ELSE { [rp |-> NoPulse, state |-> 1, call |-> NoCall] } :
           /\ random_pulse = o.rp
           /\ RNG_STATE = o.state
           /\ call = o.call
    /\ asked = NoAsk
    /\ steps = 0
    /\ pc = "tick"
    /\ frame = NoFrame
    /\ layout = NoLayout
    /\ current_spine = 0
    /\ current_position = "SpineOut"
    /\ position_offset = 0
    /\ queries = <<>>
    /\ colors = <<>>
    /\ lastRet = "fresh"
    /\ fault = "none"
    /\ ub = FALSE
    /\ cap = 1
    /\ occupied = 0
    /\ storage = [i \in {0} |-> Blank]
    /\ held = [i \in {0} |-> Empty]
    /\ lastOp = Op("new", 0, NoneRet, NoVisit)
    /\ oscs = NoOscs
    /\ lastTick = NoTick
    /\ arc = NoArc
    /\ arc_position = 0
    /\ arcTick = NoArcTick
    /\ operands = NoOperands
    /\ outputs = NoOutputs

\* the generator seeded with any of the seeds, no call made yet
RandInit ==
    /\ RNG_STATE \in Seeds
    /\ call = NoCall
    /\ steps = 0
    /\ built = "none"
    /\ triangle = Triangle_new
    /\ square = Square_new(0)
    /\ with_frequency = WithFrequency_new(0)
    /\ random_pulse = NoPulse
    /\ asked = NoAsk
    /\ pc = "tick"
    /\ frame = NoFrame
    /\ layout = NoLayout
    /\ current_spine = 0
    /\ current_position = "SpineOut"
    /\ position_offset = 0
    /\ queries = <<>>
    /\ colors = <<>>
    /\ lastRet = "fresh"
    /\ fault = "none"
    /\ ub = FALSE
    /\ cap = 1
    /\ occupied = 0
    /\ storage = [i \in {0} |-> Blank]
    /\ held = [i \in {0} |-> Empty]
    /\ lastOp = Op("new", 0, NoneRet, NoVisit)
    /\ oscs = NoOscs
    /\ lastTick = NoTick
    /\ arc = NoArc
    /\ arc_position = 0
    /\ arcTick = NoArcTick
    /\ operands = NoOperands
    /\ outputs = NoOutputs

\* ArcStreak::new(rng(), a Constant velocity, the TestPattern), the generator
\* seeded with any of the seeds
QueryInit ==
    /\ arc \in { [ARC_LEN |-> p[1], TOTAL_ARCS |-> p[2]] : p \in RngArcParameters }
    /\ arc_position = 0
    /\ arcTick \in { ArcTicked(v, 0, 0) : v \in RngArcVelocities }
    /\ RNG_STATE \in Seeds
    /\ asked = NoAsk
    /\ steps = 0
    /\ built = "none"
    /\ triangle = Triangle_new
    /\ square = Square_new(0)
    /\ with_frequency = WithFrequency_new(0)
    /\ random_pulse = NoPulse
    /\ call = NoCall
    /\ pc = "tick"
    /\ frame = NoFrame
    /\ layout = NoLayout
    /\ current_spine = 0
    /\ current_position = "SpineOut"
    /\ position_offset = 0
    /\ queries = <<>>
    /\ colors = <<>>
    /\ lastRet = "fresh"
    /\ fault = "none"
    /\ ub = FALSE
    /\ cap = 1
    /\ occupied = 0
    /\ storage = [i \in {0} |-> Blank]
    /\ held = [i \in {0} |-> Empty]
    /\ lastOp = Op("new", 0, NoneRet, NoVisit)
    /\ oscs = NoOscs
    /\ lastTick = NoTick
    /\ operands = NoOperands
    /\ outputs = NoOutputs

\* main: Star::new over a layout like config.rs's, whose spines all have the
\* same lengths and at least one LED; the loop is about to run its first pass
MainInit ==
    /\ layout \in { l \in Layouts :
                       \A s \in 1..l.spines :
                           /\ l.spine_lens[s] >= 1
                           /\ l.spine_lens[s] = l.spine_lens[1]
                           /\ l.tip_lens[s] = l.tip_lens[1]
                           /\ l.arc_lens[s] = l.arc_lens[1] }
    /\ current_spine = 0
    /\ current_position = "SpineOut"
    /\ position_offset = 0
    /\ queries = <<>>
    /\ colors = <<>>
    /\ lastRet = "fresh"
    /\ fault = "none"
    /\ ub = FALSE
    /\ pc = "tick"
    /\ frame = NoFrame
    /\ built = "none"
    /\ triangle = Triangle_new
    /\ square = Square_new(0)
    /\ with_frequency = WithFrequency_new(0)
    /\ random_pulse = NoPulse
    /\ RNG_STATE = 1
    /\ call = NoCall
    /\ asked = NoAsk
    /\ steps = 0
    /\ cap = 1
    /\ occupied = 0
    /\ storage = [i \in {0} |-> Blank]
    /\ held = [i \in {0} |-> Empty]
    /\ lastOp = Op("new", 0, NoneRet, NoVisit)
    /\ oscs = NoOscs
    /\ lastTick = NoTick
    /\ arc = NoArc
    /\ arc_position = 0
    /\ arcTick = NoArcTick
    /\ operands = NoOperands
    /\ outputs = NoOutputs

StreakSpec == StreakInit /\ [][StreakNext]_vars

LifeSpec == LifeInit /\ [][LifeNext]_vars

ArcSpec == ArcInit /\ [][ArcNext]_vars

OscSpec == OscInit /\ [][OscNext]_vars

StarSpec == StarInit /\ [][StarNext]_vars

SlotSpec == SlotInit /\ [][SlotNext]_vars

WaveSpec == WaveInit /\ [][WaveNext]_vars

RandSpec == RandInit /\ [][RandNext]_vars

QuerySpec == QueryInit /\ [][QueryNext]_vars

MainSpec == MainInit /\ [][MainNext]_vars

(***************************************************************************)
(* FixedLayout (star.rs 16-60): the same lengths on every spine, and a     *)
(* LED count that update_led_count computes in u16 from the five bytes.    *)
(* An overflowing sum panics in a build with overflow checks and wraps in  *)
(* one without.                                                            *)
(***************************************************************************)
update_led_count(n_spines, n_arcs, spine_len, tip_len, arc_len) ==
    LET spine_leds == n_spines * spine_len * 2
        arc_leds == n_arcs * arc_len
        tip_leds == n_spines * tip_len
        total == spine_leds + arc_leds + tip_leds
    IN  IF spine_leds > 65535 \/ spine_leds + arc_leds > 65535 \/ total > 65535
        THEN {Panicked, Returned(total % 65536)}
        ELSE {Returned(total)}

(***************************************************************************)
(* Properties of the traversal (StarSpec).                                 *)
(***************************************************************************)
\* a layout whose spine lengths are all at least 1
ValidLayout == \A s \in 0..(spines - 1) : spine_len_at(s) >= 1

\* the wiring order of one spine: out, tip, back (mirrored), arc
RunOut(s) ==
    [p \in 1..spine_len_at(s) |->
        Query("spine", Index(s, spines), Index(p - 1, spine_len_at(s)))]

RunTip(s) ==
    [t \in 1..tip_len_at(s) |->
        Query("tip", Index(s, spines), Index(t - 1, tip_len_at(s)))]

RunBack(s) ==
    [o \in 1..spine_len_at(s) |->
        Query("spine", Index(s, spines),
              Index(spine_len_at(s) - 1 - (o - 1), spine_len_at(s)))]

RunArc(s) ==
    [a \in 1..arc_len_at(s) |->
        Query("arc", Index(s, spines), Index(a - 1, arc_len_at(s)))]

RECURSIVE WiringUpTo(_)
WiringUpTo(n) ==
    IF n = 0 THEN <<>>
    ELSE WiringUpTo(n - 1) \o RunOut(n - 1) \o RunTip(n - 1)
                           \o RunBack(n - 1) \o RunArc(n - 1)

\* the queries of a whole traversal, in wiring order
WiringOrder == WiringUpTo(spines)

IsPrefix(a, b) == Len(a) <= Len(b) /\ a = SubSeq(b, 1, Len(a))

\* C1: on a layout whose spine lengths are all at least 1 (leds() being the sum
\* of 2 * spine + tip + arc over the spines) a fresh traversal never returns
\* more than leds() colors, has returned exactly leds() colors when next()
\* reports exhaustion, and reports exhaustion once leds() colors are out.
C1_ExactLedCount ==
    ValidLayout =>
        /\ fault = "none" /\ ~ub
        /\ Len(colors) <= leds
        /\ (lastRet = "none" => Len(colors) = leds)
        /\ (Len(colors) = leds <=> current_spine >= spines)

\* C1 witness: a finished traversal of two spines, one with a tip and an arc,
\* one without
C1_Witness ==
    /\ ValidLayout
    /\ spines = 2
    /\ tip_len_at(0) > 0 /\ arc_len_at(0) > 0
    /\ tip_len_at(1) = 0 /\ arc_len_at(1) = 0
    /\ lastRet = "none"
    /\ Len(colors) = leds

\* C2: after i colors have been returned the remaining count reported by
\* size_hint()/len() is leds() - i.
C2_RemainingCountExact ==
    (ValidLayout /\ fault = "none") => size_hint = leds - Len(colors)

\* C3: the queries are made in strict wiring order: per spine, ascending, the
\* out run, the tip run, the mirrored back run, the arc run; nothing else is
\* queried.
C3_WiringOrder == IsPrefix(queries, WiringOrder)

\* C3 restricted to the layouts whose spine lengths are all at least 1
WiringOrderOnValidLayouts ==
    ValidLayout =>
        /\ IsPrefix(queries, WiringOrder)
        /\ (lastRet = "none" => queries = WiringOrder)
        /\ colors = [i \in 1..Len(queries) |-> PatternColor(queries[i])]

\* C4: a single spine of length L with no tip and no arc: the k-th color out
\* equals the (2L-1-k)-th color (0-based), for every k in 0..L-1.
C4_Mirroring ==
    (spines = 1 /\ tip_len_at(0) = 0 /\ arc_len_at(0) = 0) =>
        LET L == spine_len_at(0)
        IN  /\ (lastRet = "none" /\ L >= 1) => Len(colors) = 2 * L
            /\ \A k \in 0..(L - 1) :
                  Len(colors) >= 2 * L - k => colors[k + 1] = colors[2 * L - k]

\* C4 witness: a finished traversal of a single spine of length 2 or more
C4_Witness ==
    /\ spines = 1 /\ tip_len_at(0) = 0 /\ arc_len_at(0) = 0
    /\ spine_len_at(0) >= 2
    /\ lastRet = "none"
    /\ Len(colors) = 2 * spine_len_at(0)
    /\ colors[1] # colors[2]

\* C5: a phase of length 0 is never queried and emits nothing, on any layout:
\* every assume!(len > 0) holds.
C5_ZeroLengthPhaseSkipped ==
    /\ fault = "none"
    /\ ~ub
    /\ \A i \in 1..Len(queries) : queries[i].led.total > 0

(***************************************************************************)
(* Properties of the slot allocator (SlotSpec).                            *)
(***************************************************************************)
\* the slots occupied in bitset occ
OccupiedSet(occ) == {i \in 0..(cap - 1) : Bit(occ, i) = 1}

\* C6: after any sequence of insert, remove and retain the number of occupied
\* slots is at most MAX_SLOTS, no bit at an index >= MAX_SLOTS is set, and bit
\* i is set exactly when slot i holds a value inserted and not removed since
\* (and the storage holds that value).
C6_OccupancyInvariant ==
    /\ len <= cap
    /\ \A i \in cap..7 : Bit(occupied, i) = 0
    /\ occupied \in 0..(U8Mod - 1)
    /\ \A i \in 0..(cap - 1) :
          /\ Bit(occupied, i) = 1 <=> held[i] # Empty
          /\ held[i] # Empty => held[i] = Held(storage[i])

\* C6 witness: a retain has left slots 1 and 3 of a four-slot map occupied and
\* slot 0 free
C6_Witness ==
    /\ cap = 4
    /\ lastOp.op = "retain"
    /\ Len(lastOp.visited) = 3
    /\ OccupiedSet(occupied) = {1, 3}
    /\ held[1] = Held(20) /\ held[3] = Held(20)

\* C7: insert on a map that holds MAX_SLOTS items returns None and changes
\* neither the bitmap nor any stored value.
C7_InsertIntoFullIsNoOp ==
    [][(lastOp'.op = "insert" /\ len = cap) =>
          /\ lastOp'.ret = NoneRet
          /\ occupied' = occupied
          /\ storage' = storage]_vars

\* C7 witness: an insert has returned None on a full map of three or more slots
C7_Witness ==
    /\ cap >= 3
    /\ len = cap
    /\ lastOp.op = "insert"
    /\ lastOp.ret = NoneRet

\* the lowest-index unoccupied slot of bitset occ
LowestFree(occ) ==
    CHOOSE i \in 0..(cap - 1) :
        Bit(occ, i) = 0 /\ \A j \in 0..(i - 1) : Bit(occ, j) = 1

\* C8: insert on a map that is not full stores the value in the lowest-index
\* unoccupied slot, marks it occupied, returns its index and touches no other
\* slot.
C8_InsertLowestFree ==
    [][(lastOp'.op = "insert" /\ len < cap) =>
          LET j == LowestFree(occupied)
          IN  /\ lastOp'.ret = SomeRet(j)
              /\ storage'[j] = lastOp'.arg
              /\ Bit(occupied', j) = 1
              /\ \A i \in (0..7) \ {j} : Bit(occupied', i) = Bit(occupied, i)
              /\ \A i \in (0..(cap - 1)) \ {j} : storage'[i] = storage[i]]_vars

\* C8 witness: the map was full but for slot 1, and the insert returned 1
C8_Witness ==
    /\ cap >= 3
    /\ len = cap
    /\ lastOp.op = "insert"
    /\ lastOp.ret = SomeRet(1)

\* C9: remove(i) clears bit i whatever it was, leaves every other bit and the
\* storage alone, changes nothing when slot i was empty already, and a second
\* remove(i) right after the first changes nothing.
C9_RemoveIdempotentLocal ==
    [][lastOp'.op = "remove" =>
          LET i == lastOp'.arg
          IN  /\ Bit(occupied', i) = 0
              /\ \A j \in (0..7) \ {i} : Bit(occupied', j) = Bit(occupied, j)
              /\ storage' = storage
              /\ Bit(occupied, i) = 0 => occupied' = occupied
              /\ (lastOp.op = "remove" /\ lastOp.arg = i) =>
                     occupied' = occupied]_vars

\* C9 witness: remove was called on a slot that never held a value, beside
\* two occupied slots
C9_Witness ==
    /\ lastOp.op = "remove"
    /\ storage[lastOp.arg] = Blank
    /\ len >= 2

\* C10: retain(f) calls f on the slots occupied at the start of the call, each
\* once, in ascending order, and on no other slot; afterwards exactly the
\* occupied slots whose value f kept are occupied.  An always-true f changes
\* nothing, an always-false f empties the map.
C10_RetainVisitsEachOnce ==
    [][lastOp'.op = "retain" =>
          LET f == lastOp'.arg
              v == lastOp'.visited
          IN  /\ \A a, b \in 1..Len(v) : a < b => v[a] < v[b]
              /\ {v[a] : a \in 1..Len(v)} = OccupiedSet(occupied)
              /\ OccupiedSet(occupied') =
                    {i \in OccupiedSet(occupied) : PredKeeps(f, storage[i])}
              /\ \A i \in cap..7 : Bit(occupied', i) = Bit(occupied, i)
              /\ \A i \in (0..(cap - 1)) \ OccupiedSet(occupied) :
                    storage'[i] = storage[i]
              /\ \A i \in OccupiedSet(occupied) :
                    storage'[i] = PredValue(f, storage[i])
              /\ f.keep = Values => occupied' = occupied
              /\ (f.keep = Values /\ ~f.touch) => storage' = storage
              /\ f.keep = {} => occupied' = 0]_vars

\* C10 witness: a retain over slots 1, 2, 3 (slot 0 free) has kept slot 2 only
C10_Witness ==
    /\ lastOp.op = "retain"
    /\ lastOp.visited = <<1, 2, 3>>
    /\ OccupiedSet(occupied) = {2}

(***************************************************************************)
(* Properties of the streak spawner (StreakSpec, LifeSpec).                *)
(***************************************************************************)
\* the slots of a bitset
SlotsOf(occ) == { i \in 0..(StreakSlots - 1) : Bit(occ, i) = 1 }

\* a Signal quantized to 0..31 and to 0..7: floor((v + 128) / 8), / 32
Quantized5(v) == (v + 128) \div 8

Quantized3(v) == (v + 128) \div 32

\* the fixed-point increment of a velocity code: 1 + floor(3 * code / 7)
Increment(code) == 1 + (3 * code) \div 7

\* the Signal T as the unsigned byte the cull compares with
AsByte(T) == IF T < 0 THEN T + 256 ELSE T

\* C11: a tick stores a new streak exactly when the spawn Signal it read is
\* positive, the allocator it found had a free slot and the quantized length
\* is positive; it stores at most one, and no slot is taken otherwise
C11_SpawnExactlyWhenDue ==
    [][ LET in == lastTick'.signals
            due == /\ in.spawn > 0
                   /\ Cardinality(SlotsOf(occupied)) < StreakSlots
                   /\ Quantized5(in.length) > 0
        IN  /\ lastTick'.stored.some <=> due
            /\ due => /\ lastTick'.stored.index \notin SlotsOf(occupied)
                      /\ SlotsOf(lastTick'.afterSpawn)
                            = SlotsOf(occupied) \cup {lastTick'.stored.index}
            /\ ~due => lastTick'.afterSpawn = occupied ]_vars

\* the eighth streak has just been stored: the allocator is full
C11_Witness ==
    /\ lastTick.stored = SomeRet(StreakSlots - 1)
    /\ SlotsOf(occupied) = 0..(StreakSlots - 1)

\* C12: every live streak has a length above 0, so the assumption of the
\* brightness computation holds for every streak it iterates over
C12_LiveStreaksHaveLength ==
    /\ \A i \in SlotsOf(occupied) : length(storage[i]) > 0
    /\ \A k \in 1..Len(streaks_iter) : length(streaks_iter[k]) > 0

\* eight live streaks of the shortest length a spawn accepts
C12_Witness ==
    /\ SlotsOf(occupied) = 0..(StreakSlots - 1)
    /\ \A i \in SlotsOf(occupied) : length(storage[i]) = 1
    /\ Quantized5(lastTick.signals.length) = 1

\* the spawn trigger fires on an empty allocator with a length Signal that
\* quantizes above 0 (the step C13 is about)
SpawnIntoEmpty ==
    /\ occupied = 0
    /\ lastTick'.signals.spawn > 0
    /\ Quantized5(lastTick'.signals.length) > 0

\* C13 as stated: the tick on which the trigger fires on an empty allocator
\* ends with occupancy 1
C13_TriggerTickEndsWithOne ==
    [][ SpawnIntoEmpty => Cardinality(SlotsOf(occupied')) = 1 ]_vars

\* the tail of a new streak after its first advance: floor(increment / 2)
\* less the length, not below 0
FirstTail(in) ==
    LET head == Increment(Quantized3(in.velocity)) \div 2
    IN  IF head < Quantized5(in.length) THEN 0 ELSE head - Quantized5(in.length)

\* C13 amended: that tick ends with occupancy 1 when the new streak's tail
\* after its first advance is below T read as an unsigned byte, and with
\* occupancy 0 otherwise (the streak is stored and culled on the same tick)
C13_TriggerTickEndsWithOneIfVisible ==
    [][ SpawnIntoEmpty =>
          /\ lastTick'.stored = SomeRet(0)
          /\ Cardinality(SlotsOf(occupied'))
               = IF FirstTail(lastTick'.signals) < AsByte(lastTick'.signals.total)
                 THEN 1 ELSE 0 ]_vars

\* a streak stored into the empty allocator is alive at the end of its tick
C13_Witness ==
    /\ lastTick.stored = SomeRet(0)
    /\ occupied = 1
    /\ position_fixed(storage[0]) = Increment(velocity_multiplier(storage[0]))

\* a streak stored into the empty allocator and culled on the same tick
C13_CulledAtOnce ==
    /\ lastTick.stored = SomeRet(0)
    /\ lastTick.afterSpawn = 1
    /\ occupied = 0
    /\ lastTick.signals.total > 0

\* C14 as stated: a live streak is removed on a tick exactly when, after
\* it has advanced, floor(head) - Len >= T, T the Signal read on that tick
C14_RemovedWhenTailReachesT ==
    [][ \A i \in SlotsOf(lastTick'.afterSpawn) :
          (i \notin SlotsOf(occupied'))
            <=> (position(storage'[i]) - length(storage'[i])
                   >= lastTick'.signals.total) ]_vars

\* C14 amended: it is removed exactly when floor(head) - Len, taken as 0
\* when negative, is at least T read as an unsigned byte
C14_RemovedWhenClampedTailReachesByteT ==
    [][ \A i \in SlotsOf(lastTick'.afterSpawn) :
          LET head == position(storage'[i])
              Len_ == length(storage'[i])
              tail == IF head < Len_ THEN 0 ELSE head - Len_
          IN  (i \notin SlotsOf(occupied'))
                <=> (tail >= AsByte(lastTick'.signals.total)) ]_vars

\* a streak that lived through earlier ticks has just been removed, its head
\* beyond its length
C14_Witness ==
    /\ 0 \in SlotsOf(lastTick.afterSpawn)
    /\ ~lastTick.stored.some
    /\ occupied = 0
    /\ position(storage[0]) > length(storage[0])
    /\ lastTick.signals.total > 0

\* C15: the fixed-point head of every live streak never decreases: a tick
\* adds the increment of its velocity code, 1..4, and saturates at 255
C15_HeadMonotoneSaturating ==
    [][ \A i \in SlotsOf(lastTick'.afterSpawn) :
          LET before == IF i \in SlotsOf(occupied)
                        THEN position_fixed(storage[i]) ELSE 0
              inc == Increment(velocity_multiplier(storage'[i]))
              after == position_fixed(storage'[i])
          IN  /\ inc \in 1..4
              /\ after >= before
              /\ after = IF before + inc > 255 THEN 255 ELSE before + inc ]_vars

\* a live streak whose head has saturated
C15_Witness ==
    \E i \in SlotsOf(occupied) :
        /\ position_fixed(storage[i]) = 255
        /\ velocity_multiplier(storage[i]) = 7

\* LED indices the brightness is asked for
MaxLed == 6

\* the live streaks that cover LED x: head at or beyond x, within the length
Covering(x) ==
    { i \in SlotsOf(occupied) :
        /\ position(storage[i]) >= x
        /\ position(storage[i]) - x <= length(storage[i]) }

\* the brightness one covering streak gives LED x
Factor(i, x) ==
    ((length(storage[i]) - (position(storage[i]) - x)) * 255)
        \div length(storage[i])

\* the brightness of LED x as C17 states it
BrightnessAt(x) ==
    IF \E i \in SlotsOf(occupied) : position(storage[i]) = x THEN 255
    ELSE IF Covering(x) = {} THEN 0
    ELSE CHOOSE b \in { Factor(i, x) : i \in Covering(x) } :
             \A i \in Covering(x) : Factor(i, x) <= b

\* C17: the brightness of LED x is 255 when a live streak's head is at x,
\* else the largest ((length - (head - x)) * 255) / length over the live
\* streaks covering x, else 0
C17_BrightnessIsMaxOverCovering ==
    \A x \in 0..MaxLed :
        calculate_streak_brightness(Index(x, MaxLed + 1)) = BrightnessAt(x)

\* an LED no head is at, covered by two streaks that give it different
\* brightness above 0
C17_Witness ==
    \E x \in 0..MaxLed : \E i, j \in Covering(x) :
        /\ \A k \in SlotsOf(occupied) : position(storage[k]) # x
        /\ 0 < Factor(i, x)
        /\ Factor(i, x) < Factor(j, x)
        /\ calculate_streak_brightness(Index(x, MaxLed + 1)) = Factor(j, x)

\* the queries of the three kinds at LED x of spine or arc a
QueriesAt(a, x) ==
    { Query(kind, Index(a, MaxSpines), Index(x, MaxLed + 1)) :
        kind \in {"spine", "tip", "arc"} }

\* C18: a query of any kind returns the inner pattern's color for the same
\* arguments with h and s unchanged and v replaced by the streak brightness
\* of the LED, 0 where no streak covers it
C18_ValueReplacedByBrightness ==
    \A x \in 0..MaxLed : \E b \in {BrightnessAt(x)} :
        /\ Covering(x) = {} => b = 0
        /\ \A q \in QueriesAt(0, x) \cup QueriesAt(MaxSpines - 1, x) :
              StreakColor(q) = Hsv(PatternColor(q).h, PatternColor(q).s, b)

\* a spine query whose inner color has v = 255 and comes back dimmer, and an
\* uncovered LED whose arc query comes back dark
C18_Witness ==
    /\ \E x \in 0..MaxLed :
          LET q == Query("spine", Index(1, MaxSpines), Index(x, MaxLed + 1))
          IN  /\ PatternColor(q).v = 255
              /\ StreakColor(q).v \in 1..254
    /\ \E x \in 0..MaxLed :
          LET q == Query("arc", Index(0, MaxSpines), Index(x, MaxLed + 1))
          IN  /\ Covering(x) = {}
              /\ PatternColor(q).v = 64
              /\ StreakColor(q).v = 0

(***************************************************************************)
(* Properties of the arc streak (ArcSpec).                                 *)
(***************************************************************************)
\* the ring in fixed point: M = 2 * ARC_LEN * TOTAL_ARCS
RingFixed == 2 * ARC_LEN * TOTAL_ARCS

\* C16: with M <= 254, after every tick the position is the previous
\* position plus the increment modulo M, and lies in 0..M-1
C16_PositionWrapsModuloM ==
    [][ RingFixed <= 254 =>
          /\ arc_position'
               = (arc_position + Increment(Quantized3(arcTick'.velocity)))
                   % RingFixed
          /\ arc_position' \in 0..(RingFixed - 1) ]_vars

\* the position stays in 0..M-1 on every ring
PositionInRing == arc_position \in 0..(RingFixed - 1)

\* the position wraps modulo M on the rings with M <= 252
WrapsModuloSmallerM ==
    [][ RingFixed <= 252 =>
          arc_position'
            = (arc_position + Increment(Quantized3(arcTick'.velocity)))
                % RingFixed ]_vars

\* the distance back from the head to LED l of arc a, as C19 states it
RingDistance(a, l) ==
    LET head_global == arc_position \div 2
        led_global == a * ARC_LEN + l
    IN  IF head_global >= led_global
        THEN head_global - led_global
        ELSE (ARC_LEN * TOTAL_ARCS - led_global) + head_global

\* the brightness C19 states for LED l of arc a
RingBrightness(a, l) ==
    LET streak_length == Quantized5(arcTick.length)
    IN  IF streak_length = 0 THEN 0
        ELSE IF RingDistance(a, l) <= streak_length
             THEN ((streak_length - RingDistance(a, l)) * 255) \div streak_length
             ELSE 0

\* C19: an arc query returns the inner color with v set from the circular
\* distance back from the head: ((length - distance) * 255) / length within
\* the length, 0 beyond it and 0 when the quantized length is 0; the
\* distance is that many LEDs round the ring
C19_ArcBrightnessCircular ==
    \A a \in 0..(TOTAL_ARCS - 1) : \A l \in 0..(ARC_LEN - 1) :
        \E c \in { ArcStreak_arc_color_at(Index(a, TOTAL_ARCS), Index(l, ARC_LEN)) } :
            /\ c.v = RingBrightness(a, l)
            /\ c.h = a
            /\ c.s = l
            /\ RingDistance(a, l) = (arc_position \div 2 - (a * ARC_LEN + l))
                                      % (ARC_LEN * TOTAL_ARCS)

\* the head has wrapped to the start of the ring and lights an LED at the
\* end of it, on the last arc
C19_Witness ==
    /\ arcTick.previous > arc_position
    /\ TOTAL_ARCS > 1
    /\ \E l \in 0..(ARC_LEN - 1) :
          /\ RingDistance(TOTAL_ARCS - 1, l) \in 1..3
          /\ ArcStreak_arc_color_at(Index(TOTAL_ARCS - 1, TOTAL_ARCS),
                                    Index(l, ARC_LEN)).v \in 1..254

(***************************************************************************)
(* Properties of the binary combinators (OscSpec).                         *)
(***************************************************************************)
\* the two's-complement 8-bit wrap of an integer
Wrap8(x) == ((x + 128) % 256) - 128

\* the value clamped to -128..127
Clamp8(x) == IF x > 127 THEN 127 ELSE IF x < -128 THEN -128 ELSE x

\* get() of the combinator returned the value v
Gave(name, v) == outputs.get[name] = Returned(v)

\* C20 for the combinators whose exact result every pair has
WrapsAndClampsSumsAndProducts ==
    outputs.read =>
        LET a == operands[1]
            b == operands[2]
        IN  /\ Gave("Add", Wrap8(a + b))
            /\ Gave("Sub", Wrap8(a - b))
            /\ Gave("Mul", Wrap8(a * b))
            /\ Gave("SaturatingAdd", Clamp8(a + b))
            /\ Gave("SaturatingSub", Clamp8(a - b))
            /\ Gave("SaturatingMul", Clamp8(a * b))

\* the quotient q and remainder r of a by b /= 0: a = q * b + r, |r| < |b|,
\* r of the sign of a
IsQuotRem(a, b, q, r) ==
    /\ a = q * b + r
    /\ (IF r < 0 THEN -r ELSE r) < (IF b < 0 THEN -b ELSE b)
    /\ r = 0 \/ (r < 0) = (a < 0)

\* C20 for division and remainder on the pairs with a divisor other than 0
WrapsAndClampsQuotients ==
    (outputs.read /\ operands[2] # 0) =>
        \E q \in -128..128 :
            /\ Gave("Div", Wrap8(q))
            /\ Gave("SaturatingDiv", Clamp8(q))
            /\ \E r \in -127..127 :
                  /\ Gave("Rem", Wrap8(r))
                  /\ IsQuotRem(operands[1], operands[2], q, r)

\* C20: for every pair of Signals each wrapping combinator returns the
\* 8-bit wrap of the exact result and each saturating variant the result
\* clamped to -128..127
C20_WrapOrClampForEveryPair ==
    outputs.read =>
        /\ \A name \in Combinators : ~outputs.get[name].panicked
        /\ WrapsAndClampsSumsAndProducts
        /\ \E q \in -128..128 :
              /\ Gave("Div", Wrap8(q))
              /\ Gave("SaturatingDiv", Clamp8(q))
              /\ \E r \in -127..127 :
                    /\ Gave("Rem", Wrap8(r))
                    /\ operands[2] # 0
                          => IsQuotRem(operands[1], operands[2], q, r)

\* C21: Neg.get() never traps: it returns 127 when the child's value is -128
\* and -v for every other value v of the child
C21_NegClampsMinimum ==
    outputs.read =>
        /\ ~outputs.get["Neg"].panicked
        /\ outputs.get["Neg"].value \in Signal
        /\ operands[1] = -128 => Gave("Neg", 127)
        /\ operands[1] # -128 => Gave("Neg", 0 - operands[1])

\* Neg over a child at -128 has been read
C21_Witness == outputs.read /\ operands[1] = -128 /\ Gave("Neg", 127)

\* the only calls that panic are the three divisions with a zero divisor, and
\* every other call returns a Signal
PanicsOnlyOnZeroDivisor ==
    outputs.read =>
        \A name \in Combinators :
            /\ outputs.get[name].panicked
                  <=> (name \in {"Div", "SaturatingDiv", "Rem"} /\ operands[2] = 0)
            /\ outputs.get[name].value \in Signal

\* C22: for every combinator and every pair of child Signals get() completes
\* and returns a Signal; no operation fails or panics on any input
C22_EveryOperationTotal ==
    outputs.read =>
        \A name \in Combinators :
            /\ ~outputs.get[name].panicked
            /\ outputs.get[name].value \in Signal

(***************************************************************************)
(* Properties of pattern queries over Rng (QuerySpec).                     *)
(***************************************************************************)
\* C23: pattern color queries are pure between ticks: repeating arc_color_at
\* with the same arguments without a tick in between returns the same Color
\* and changes no state
C23_QueriesRepeatBetweenTicks ==
    [][(asked # NoAsk /\ asked' # NoAsk
            /\ asked'.arc = asked.arc /\ asked'.led = asked.led)
         => (asked'.color = asked.color /\ RNG_STATE' = RNG_STATE)]_vars

\* the part of C23 that holds: a query leaves the ArcStreak itself as it was,
\* and its color is that of some length Signal
QueriesLeaveTheStreak ==
    [][asked' # NoAsk =>
         /\ UNCHANGED arcVars
         /\ \E l \in Signal :
               asked'.color = ArcStreak_color(Index(asked'.arc, TOTAL_ARCS),
                                              Index(asked'.led, ARC_LEN), l)]_vars

(***************************************************************************)
(* Properties of the primitive oscillators (WaveSpec).                     *)
(***************************************************************************)
\* C24: WithFrequency over a Sawtooth with the frequency constant at 127
\* advances the sawtooth by exactly 4 (wrapping) on every outer tick
C24_FourPerTickAtMaximum ==
    [][(built = "WithFrequency" /\ with_frequency.frequency = 127) =>
          with_frequency'.inner = Wrap8(with_frequency.inner + 4)]_vars

\* the sawtooth has wrapped: 32 ticks of 4 from 0 reach -128
C24_Witness ==
    /\ built = "WithFrequency"
    /\ with_frequency.frequency = 127
    /\ steps = 32
    /\ with_frequency.inner = -128

\* C25: with the frequency constant at -128 the sawtooth advances by 1 on
\* every 4th outer tick (ticks 4, 8, 12, ... from construction) and by 0 on
\* every other tick
C25_OnePerFourTicksAtMinimum ==
    [][(built = "WithFrequency" /\ with_frequency.frequency = -128) =>
          with_frequency'.inner =
              IF steps' % 4 = 0 THEN Wrap8(with_frequency.inner + 1)
              ELSE with_frequency.inner]_vars

\* 516 ticks have advanced the sawtooth 129 times, past its wrap
C25_Witness ==
    /\ built = "WithFrequency"
    /\ with_frequency.frequency = -128
    /\ steps = 516
    /\ with_frequency.inner = -127

\* the value of a Triangle after k ticks: 0 up to 127, down to -128, up to 0,
\* with period 510
TriangleAt(k) ==
    LET m == k % 510
    IN  IF m <= 127 THEN m ELSE IF m <= 382 THEN 254 - m ELSE m - 510

\* C28: Triangle starts at 0 going up; successive values differ by exactly 1;
\* the direction flips from up to down exactly at 127 and from down to up
\* exactly at -128; it never jumps between 127 and -128, and it visits every
\* value in each period
C28_TrianglePingPongs ==
    [][built = "Triangle" =>
         /\ triangle.counter = TriangleAt(steps)
         /\ triangle'.counter = TriangleAt(steps')
         /\ steps = 0 => triangle.direction
         /\ triangle'.counter - triangle.counter
                = (IF triangle.direction THEN 1 ELSE -1)
         /\ (triangle.direction /\ ~triangle'.direction)
                <=> triangle'.counter = 127
         /\ (~triangle.direction /\ triangle'.direction)
                <=> triangle'.counter = -128]_vars

\* a Triangle that has turned at 127 and is turning at -128
C28_Witness ==
    /\ built = "Triangle"
    /\ steps = 382
    /\ triangle.counter = -128
    /\ triangle.direction

\* Square over a Constant duty cycle gives the minimum exactly while its
\* wrapping i8 counter, the tick count mod 256 read as an i8, is below it
SquareFollowsWrappingCounter ==
    built = "Square" =>
        /\ square.counter = Wrap8(steps)
        /\ Square_get(square)
              = (IF Wrap8(steps) < square.duty_cycle THEN -128 ELSE 127)

\* C29: with a constant duty cycle D, after n ticks Square.get() is the
\* minimum Signal if n < D and the maximum otherwise, for every n >= 0 (the
\* counter does not wrap)
C29_SquareCounterWrapFree ==
    built = "Square" =>
        Square_get(square)
            = (IF steps < square.duty_cycle THEN -128 ELSE 127)

\* C30 as the code has it: RandomPulse.get() returns the maximum Signal
\* exactly in the states where the countdown counter is zero, and 0 in every
\* other state
C30_PulseAtZeroElseZero ==
    built = "RandomPulse" =>
        /\ RandomPulse_get(random_pulse) = 127 <=> random_pulse.counter = 0
        /\ random_pulse.counter # 0 => RandomPulse_get(random_pulse) = 0

\* C30: RandomPulse.get() returns the maximum Signal exactly in the states
\* where the countdown counter has reached zero, and the minimum Signal in
\* every other state
C30_PulseAtZeroElseMinimum ==
    built = "RandomPulse" =>
        /\ RandomPulse_get(random_pulse) = 127 <=> random_pulse.counter = 0
        /\ random_pulse.counter # 0 => RandomPulse_get(random_pulse) = -128

\* a RandomPulse that drew a count between 5 and 10 and is counting it down
C30_Witness ==
    /\ built = "RandomPulse"
    /\ steps > 0
    /\ call = Called(5, 10, Returned(call.ret.value))
    /\ random_pulse.counter \in 1..9
    /\ RandomPulse_get(random_pulse) = 0

(***************************************************************************)
(* Properties of rand::range_u8 (RandSpec).                                *)
(***************************************************************************)
\* the call returned min when min >= max, and a value of min..max otherwise
InRange(c) ==
    IF c.min >= c.max THEN c.ret = Returned(c.min)
    ELSE ~c.ret.panicked /\ c.min <= c.ret.value /\ c.ret.value <= c.max

\* C27 for every pair except (0, 255)
InRangeShortOfFullRange ==
    (steps > 0 /\ ~(call.min = 0 /\ call.max = 255)) => InRange(call)

\* C27: range_u8(min, max) returns min whenever min >= max, and for every
\* pair with min < max (min = 0, max = 255 included) a value r with
\* min <= r <= max, without failing
C27_RangeWithinBounds == steps > 0 => InRange(call)

(***************************************************************************)
(* Properties of the frame loop (MainSpec).                                *)
(***************************************************************************)
\* C26: in every frame the pattern tree is ticked exactly once, then exactly
\* one full traversal of leds() colors is read and handed to the driver; no
\* tick happens between the first and the last color query of the frame
C26_TickThenOneTraversal ==
    /\ frame.ticks <= 1 /\ frame.passes <= 1
    /\ pc # "tick" => frame.ticks = 1
    /\ frame.passes = 1 =>
          /\ frame.ticks = 1 /\ frame.ticked_at = 0
          /\ frame.written = Len(colors)
          /\ IsPrefix(queries, WiringOrder)
    /\ pc = "delay" =>
          /\ frame.passes = 1
          /\ frame.written = leds
          /\ queries = WiringOrder
          /\ lastRet = "none"

\* a later frame has handed a whole two-spine traversal to the driver
C26_Witness ==
    /\ frame.no = MaxFrames
    /\ pc = "delay"
    /\ spines = 2
    /\ frame.written = leds
    /\ frame.ticks = 1

(***************************************************************************)
(* Properties of the Oscillator pattern and of ticking (OscSpec).          *)
(***************************************************************************)
\* the color whose channels are the children's Signals plus 128
Plus128Color == Hsv(operands[1] + 128, operands[2] + 128, 127 + 128)

\* C31 for the queries that return: the color is the Signals plus 128, and a
\* query fails only when a child holds a negative Signal
Plus128UnlessOverflowChecked ==
    outputs.read =>
        /\ ~outputs.color.panicked => outputs.color.value = Plus128Color
        /\ outputs.color.panicked => (operands[1] < 0 \/ operands[2] < 0)

\* C31: the oscillator-triple pattern maps each oscillator Signal s to the
\* channel s + 128 for every s in -128..127, without overflow or failure for
\* negative Signals
C31_ChannelIsSignalPlus128 ==
    outputs.read => outputs.color = ReturnedColor(Plus128Color)

\* C33: every binary combinator and Neg ticks each of its children exactly
\* once per outer tick and holds no state of its own: a get() leaves the
\* children as they were, and repeated before the next tick it returns what
\* the first call returned
C33_TicksChildrenOnceAndGetIsPure ==
    [][/\ operands' # operands =>
             /\ operands' = <<Wrap8(operands[1] + 1), Wrap8(operands[2] + 1)>>
             /\ ~outputs'.read
       /\ outputs'.read =>
             /\ operands' = operands
             /\ outputs.read => outputs'.get = outputs.get
             /\ \A name \in Combinators :
                   outputs'.get[name]
                       = combinator_get(name, operands'[1], operands'[2])]_vars

\* the combinators over children at 127 and -128 have been read twice since
\* the last tick
C33_Witness ==
    /\ outputs.again
    /\ operands = <<127, -128>>
    /\ Gave("Sub", -1)

(***************************************************************************)
(* Properties of SlotMap iteration (SlotSpec).                             *)
(***************************************************************************)
\* the occupied slot indexes
OccupiedSlots == { i \in 0..(cap - 1) : Bit(occupied, i) # 0 }

\* the k-th smallest occupied slot index, k from 1
KthOccupied(k) ==
    CHOOSE i \in OccupiedSlots :
        Cardinality({ j \in OccupiedSlots : j < i }) = k - 1

\* C35: iter / iter_mut yields exactly the values of the currently occupied
\* slots, each once, in ascending slot-index order, len() items in total
C35_IterYieldsOccupiedAscending ==
    lastOp.op \in {"iter", "iter_mut"} =>
        /\ Len(lastOp.visited) = len
        /\ Len(lastOp.visited) = Cardinality(OccupiedSlots)
        /\ \A k \in 1..Len(lastOp.visited) :
              lastOp.visited[k] = storage[KthOccupied(k)]

\* an iteration over a map whose lowest slot is free and that holds
\* different values above it
C35_Witness ==
    /\ lastOp.op = "iter_mut"
    /\ Bit(occupied, 0) = 0
    /\ lastOp.visited = <<20, 10>>

(***************************************************************************)
(* Properties of FixedLayout (StarSpec).                                   *)
(***************************************************************************)
\* the layout of the traversal is a FixedLayout's: at least one spine, the
\* same lengths on every spine, spines of length 1 or more
IsFixedLayout ==
    /\ spines >= 1
    /\ spine_len_at(0) >= 1
    /\ \A s \in 0..(spines - 1) :
          /\ spine_len_at(s) = spine_len_at(0)
          /\ tip_len_at(s) = tip_len_at(0)
          /\ arc_len_at(s) = arc_len_at(0)

\* the outcomes of update_led_count for the traversed lengths and an arcs byte
FixedLeds(n_arcs) ==
    update_led_count(spines, n_arcs, spine_len_at(0), tip_len_at(0), arc_len_at(0))

\* C36: for every FixedLayout with spine_len >= 1, whatever its arcs byte,
\* update_led_count leaves in leds the number of colors a finished traversal
\* of that layout has emitted, and the computation does not overflow.
C36_FixedLedsEqualTraversalCount ==
    (IsFixedLayout /\ lastRet = "none") =>
        \A n_arcs \in 0..(MaxSpines + 1) : FixedLeds(n_arcs) = {Returned(Len(colors))}

\* what holds of C36: a FixedLayout whose arcs byte equals its spines byte
\* declares the number of colors its traversal emits (on the small layouts
\* traversed here the u16 sum does not overflow)
FixedLedsWithAnArcPerSpine ==
    (IsFixedLayout /\ lastRet = "none") =>
        FixedLeds(spines) = {Returned(Len(colors))}

\* the u16 computation overflows on bytes the type admits: 255 spines of
\* length 255 need 130050 LEDs for the out and back runs alone
FixedLedsOverflow == Panicked \in update_led_count(255, 0, 255, 0, 0)

(***************************************************************************)
(* Properties of the spawn quantization (LifeSpec).                        *)
(***************************************************************************)
\* min(m, x)
AtMost(m, x) == IF x > m THEN m ELSE x

\* C32: for every Signal v the streak length is min(31, (v + 128) >> 3), in
\* 0..31, and the velocity code is min(7, (v + 128) >> 5), in 0..7; the
\* increment of code c is 1 + floor(c * 3 / 7), non-decreasing in c and in
\* 1..4 (code 0 gives 1, code 7 gives 4); a streak a tick has just stored
\* carries the length and the code quantized from the Signals of that tick
C32_SpawnQuantization ==
    /\ \A v \in -128..127 :
          /\ \E q \in {map_i8_to_5bit(v)} :
                q = AtMost(31, Quantized5(v)) /\ 0 <= q /\ q <= 31
          /\ \E q \in {map_i8_to_3bit(v)} :
                q = AtMost(7, Quantized3(v)) /\ 0 <= q /\ q <= 7
    /\ \A c \in 0..7 :
          /\ velocity_to_multiplier(c) = Increment(c)
          /\ velocity_to_multiplier(c) \in 1..4
          /\ c < 7 => velocity_to_multiplier(c) <= velocity_to_multiplier(c + 1)
    /\ velocity_to_multiplier(0) = 1
    /\ velocity_to_multiplier(7) = 4
    /\ (lastTick.stored.some /\ lastTick.stored.index \in SlotsOf(occupied)) =>
          LET st == storage[lastTick.stored.index]
          IN  /\ length(st) = AtMost(31, Quantized5(lastTick.signals.length))
              /\ velocity_multiplier(st)
                   = AtMost(7, Quantized3(lastTick.signals.velocity))

\* a tick has just stored a streak of the greatest length and velocity code,
\* quantized from the Signals 127 and 96
C32_Witness ==
    /\ lastTick.stored.some
    /\ lastTick.stored.index \in SlotsOf(occupied)
    /\ lastTick.signals.length = 127
    /\ lastTick.signals.velocity = 96
    /\ length(storage[lastTick.stored.index]) = 31
    /\ velocity_multiplier(storage[lastTick.stored.index]) = 7
    /\ position_fixed(storage[lastTick.stored.index]) = 4

(***************************************************************************)
(* Properties of the order of the steps of a spawner tick (LifeSpec).      *)
(***************************************************************************)
\* the head a tick leaves: the head before plus the increment, at most 255
Advanced(before, inc) == IF before + inc > 255 THEN 255 ELSE before + inc

\* the tail of a streak: floor(head) less the length, not below 0
TailOf(st) ==
    IF position(st) < length(st) THEN 0 ELSE position(st) - length(st)

\* C38: a tick first ticks the oscillators (the spawn Signal it reads is that
\* of the RandomPulse after its tick), then spawns, then advances and culls
\* every live streak, the one just spawned included: a new streak's head
\* after its spawn tick is its increment, and a tick that starts with a full
\* allocator stores nothing even when it culls a streak
C38_OscillatorsThenSpawnThenAdvance ==
    [][ LET in == lastTick'.signals
            new == lastTick'.stored
            live == SlotsOf(lastTick'.afterSpawn)
        IN  /\ oscs.spawn = "pulse" =>
                  in.spawn = (IF random_pulse'.counter = 0 THEN 127 ELSE 0)
            /\ SlotsOf(occupied) = 0..(StreakSlots - 1) =>
                  ~new.some /\ lastTick'.afterSpawn = occupied
            /\ new.some =>
                  /\ new.index \in live \ SlotsOf(occupied)
                  /\ position_fixed(storage'[new.index])
                       = Increment(AtMost(7, Quantized3(in.velocity)))
            /\ { lastTick'.visited[k] : k \in 1..Len(lastTick'.visited) } = live
            /\ \A i \in live :
                  LET before == IF i \in SlotsOf(occupied)
                                THEN position_fixed(storage[i]) ELSE 0
                  IN  /\ position_fixed(storage'[i])
                           = Advanced(before,
                                      Increment(velocity_multiplier(storage'[i])))
                      /\ i \in SlotsOf(occupied')
                           <=> TailOf(storage'[i]) < AsByte(in.total) ]_vars

\* a tick of the pulsed spawner found the allocator full with the pulse up:
\* it stored nothing and culled a streak
C38_Witness ==
    /\ oscs.spawn = "pulse"
    /\ random_pulse.counter = 0
    /\ lastTick.signals.spawn > 0
    /\ ~lastTick.stored.some
    /\ SlotsOf(lastTick.afterSpawn) = 0..(StreakSlots - 1)
    /\ SlotsOf(occupied) # 0..(StreakSlots - 1)

(***************************************************************************)
(* Properties of the lifetime of a streak (LifeSpec).                      *)
(***************************************************************************)
\* the streaks a tick found alive and left alive
Survivors == SlotsOf(occupied) \cap SlotsOf(occupied')

\* C37: every stored streak is removed after finitely many further ticks,
\* whatever its length, its velocity code and the constant T.  With constant
\* T a tick treats a streak by its head, its length and T alone, so a streak
\* that a tick leaves alive with its head where it was is left so by every
\* later tick: every tick moves the head of each streak it leaves alive
\* forward (the head is at most 255, so the streak is removed in the end)
C37_EveryStreakIsDestroyed ==
    [][ \A i \in Survivors :
          position_fixed(storage'[i]) > position_fixed(storage[i]) ]_vars

\* what holds of C37: a tick leaves a live streak's head where it was only at
\* 255, and only a streak whose tail at that head, 127 - Len, is below T as a
\* byte; every other streak moves forward until it is removed
OnlyStreaksBeyondTheEndStay ==
    [][ \A i \in Survivors :
          \/ position_fixed(storage'[i]) > position_fixed(storage[i])
          \/ /\ position_fixed(storage[i]) = 255
             /\ 127 - length(storage[i]) < AsByte(oscs.total) ]_vars

\* the allocator full of streaks that stay: eight heads at 255, T = 127
FullOfStreaksThatStay ==
    /\ SlotsOf(occupied) = 0..(StreakSlots - 1)
    /\ \A i \in SlotsOf(occupied) : position_fixed(storage[i]) = 255
    /\ oscs.total = 127

(***************************************************************************)
(* Properties of exhaustion and of new iterators (StarSpec).               *)
(***************************************************************************)
\* C39: once next() has reported exhaustion the iterator stays past its last
\* spine, so that every later next() on it reports exhaustion again and
\* queries the pattern no more; the only other step is Star::iter(), and a
\* new iterator, whatever the traversal before it, starts at spine 0, phase
\* spine-out, offset 0, with nothing queried
C39_FusedAndRestartedByIter ==
    [][ /\ lastRet = "none" => current_spine >= spines
        /\ (lastRet = "none" /\ lastRet' # "fresh") =>
              /\ lastRet' = "none"
              /\ queries' = queries
              /\ colors' = colors
              /\ fault' = "none"
        /\ lastRet' = "fresh" =>
              /\ current_spine' = 0
              /\ current_position' = "SpineOut"
              /\ position_offset' = 0
              /\ queries' = <<>> ]_vars

\* an iterator over two spines with tips and arcs has reported exhaustion,
\* at the spine after the last, every LED queried
C39_Witness ==
    /\ lastRet = "none"
    /\ spines = MaxSpines
    /\ current_spine = spines
    /\ \A s \in 0..(spines - 1) :
          spine_len_at(s) > 0 /\ tip_len_at(s) > 0 /\ arc_len_at(s) > 0
    /\ queries = WiringOrder

(***************************************************************************)
(* Properties of the WithFrequency accumulator (WaveSpec).                 *)
(***************************************************************************)
\* the increment of a call at frequency f, in sixteenths of an inner tick
Inc(f) ==
    IF f = 0 THEN 16
    ELSE IF f > 0 THEN 16 + (f * 48) \div 127
    ELSE 16 - ((-f) * 12) \div 128

RECURSIVE SweptSum(_, _)
\* the sum of the increments of the calls from the lo-th to the hi-th over a
\* Sawtooth frequency, which holds Wrap8(j) on the j-th call
SweptSum(lo, hi) ==
    IF lo > hi THEN 0
    ELSE IF lo = hi THEN Inc(Wrap8(lo))
    ELSE SweptSum(lo, (lo + hi) \div 2) + SweptSum((lo + hi) \div 2 + 1, hi)

\* the sum of the increments of the calls made so far
IncrementsSoFar ==
    IF built = "Swept" THEN SweptSum(1, steps)
    ELSE steps * Inc(with_frequency.frequency)

\* C34: over a Constant frequency and over a frequency that sweeps all
\* Signals, the accumulator stays in 0..15; each call ticks the inner
\* oscillator 0 to 4 times, exactly once at frequency 0, and hands on what it
\* does not tick: 16 * ticks + accumulator after = accumulator before +
\* inc(f); so 16 * (inner ticks so far) + accumulator is the sum of the
\* increments so far (the inner Sawtooth counts its ticks modulo 256)
C34_AccumulatorConservesTicks ==
    [][ (built \in {"WithFrequency", "Swept"}) =>
          LET f == with_frequency'.frequency
              ticks == U8(with_frequency'.inner - with_frequency.inner)
          IN  /\ with_frequency'.frac \in 0..15
              /\ ticks \in 0..4
              /\ f = 0 => ticks = 1
              /\ 16 * ticks + with_frequency'.frac
                   = with_frequency.frac + Inc(f)
              /\ (16 * U8(with_frequency'.inner) + with_frequency'.frac) % 4096
                   = IncrementsSoFar' % 4096 ]_vars

\* the sweep reaches frequency 0 again with a fraction in hand and keeps it
C34_Witness ==
    /\ built = "Swept"
    /\ with_frequency.frequency = 0
    /\ with_frequency.frac > 0
    /\ steps = 256

(***************************************************************************)
(* Properties of the spacing of the pulses of RandomPulse (WaveSpec).      *)
(***************************************************************************)
\* the oscillator is in a pulse state: get() returns the maximum Signal
Pulsing(rp) == RandomPulse_get(rp) = 127

\* the bounds of the interval as unsigned bytes
MinCount == AsByte(random_pulse.min_count)

MaxCount == AsByte(random_pulse.max_count)

\* C40: with constant bounds min <= max as unsigned bytes, a tick in a pulse
\* state draws a count c with min <= c <= max, and every tick off the pulse
\* takes exactly 1 from the count and draws nothing; the oscillator is off
\* the pulse exactly while the count is above 0, so the non-pulse ticks
\* between two successive pulse states number c, at least min and at most max
C40_PulseSpacingWithinBounds ==
    [][ (built = "RandomPulse" /\ MinCount <= MaxCount /\ ~call'.ret.panicked) =>
          /\ Pulsing(random_pulse) =>
                /\ random_pulse'.counter = call'.ret.value
                /\ MinCount <= random_pulse'.counter
                /\ random_pulse'.counter <= MaxCount
          /\ ~Pulsing(random_pulse) =>
                /\ random_pulse'.counter = random_pulse.counter - 1
                /\ call' = call
          /\ Pulsing(random_pulse') <=> random_pulse'.counter = 0
          /\ random_pulse'.counter <= call'.ret.value ]_vars

\* a count drawn between 5 and 128 has been counted down to the next pulse
C40_Witness ==
    /\ built = "RandomPulse"
    /\ call.min = 5 /\ call.max = 128
    /\ call.ret.value > 5
    /\ steps = call.ret.value
    /\ Pulsing(random_pulse)

====
